---- MODULE Spec2Model ----
(***************************************************************************)
(* Model of the ChoibenAssist AI backend: the Gemini text-generation      *)
(* gateway (app/services/gemini_service.py), its error classifier and the *)
(* AI endpoints that call it (app/api/v1/endpoints/ai.py); the notes       *)
(* orchestrator ScrapboxService.get_learning_records                       *)
(* (app/services/scrapbox_service.py); the guards get_api_key,             *)
(* verify_api_key and rate_limit (app/dependencies.py,                     *)
(* app/core/security.py); and the process-wide service handles.            *)
(*                                                                         *)
(* The components share no state.  Each has its own specification (Spec,   *)
(* SpecClassify, SpecRecords, SpecLimiter, SpecGuards, SpecServices,       *)
(* SpecCalls) that holds the variables of the other components at their   *)
(* idle values.  SpecCalls applies the functions that keep no state, each *)
(* to every argument of its bound.                                         *)
(*                                                                         *)
(* A character outside ASCII is written as the name of its code point,     *)
(* "U+82E6", one element of the sequence per character.                    *)
(*                                                                         *)
(* Python strings are sequences of one-character strings, so substring    *)
(* tests, regular-expression searches, strip() and lower() are computed   *)
(* character by character, the way the interpreter computes them.         *)
(* Optional[T] is a sequence of length at most one: None is << >> and a   *)
(* present value v is <<v>>.                                               *)
(***************************************************************************)
EXTENDS Integers, Sequences, FiniteSets, TLC

VARIABLES
    pc,             \* position of the request in flight
    endpoint,       \* the caller of the gateway: an endpoint or "direct"
    system_prompt,  \* Optional[str] argument of generate_text
    user_prompt,    \* str argument of generate_text
    calls,          \* prompts handed to model.generate_content, in order
    reply,          \* outcome of model.generate_content
    result,         \* outcome of generate_text
    http_status,    \* status of the HTTP response, Optional[int]
    \* ScrapboxService.get_learning_records
    rpc,            \* position inside get_learning_records
    project_name,   \* Optional[str] argument of get_learning_records
    gemini_service, \* ScrapboxService.gemini_service: "ready" or None
    project,        \* the pages the notes service holds for the project
    recent_pages,   \* result of get_recent_pages
    page_index,     \* position of the loop over recent_pages[:10]
    page_contents,  \* bodies fetched so far, as the loop collects them
    outbound,       \* outbound calls of the request: starts and ends, in order
    ai_result,      \* result of _analyze_with_ai
    learning_records, \* outcome of get_learning_records
    \* app/dependencies.py: the requests of the process and the rate limiter
    clock,          \* time.time(), in seconds
    api_secret_key, \* settings.api_secret_key
    rate_limit_per_minute, \* settings.rate_limit_per_minute
    rate_limit_storage, \* client address -> timestamps of its accepted requests
    requests,       \* the requests received, each with its position and status
    decisions,      \* what rate_limit decided, in the order of its runs
    handled,        \* the requests whose handler ran, in order
    \* the service handles of the process
    gemini_api_key, \* settings.gemini_api_key
    _gemini_service, \* the global of gemini_service.py, Optional
    _scrapbox_service, \* the global of scrapbox_service.py, Optional
    caller_pc,      \* position of each caller inside get_gemini_service
    constructions,  \* the constructor runs, in order
    uses,           \* the handles the callers got, in order
    \* one call of a function that keeps no state
    fn_call,        \* the function called and its arguments
    fn_outcome      \* what the call returned or raised

gatewayVars == <<pc, endpoint, system_prompt, user_prompt, calls, reply, result, http_status>>

recordsVars == <<rpc, project_name, gemini_service, project, recent_pages, page_index,
                 page_contents, outbound, ai_result, learning_records>>

requestVars == <<clock, api_secret_key, rate_limit_per_minute, rate_limit_storage,
                 requests, decisions, handled>>

serviceVars == <<gemini_api_key, _gemini_service, _scrapbox_service, caller_pc,
                 constructions, uses>>

callVars == <<fn_call, fn_outcome>>

\* what the actions of one component leave alone
notGatewayVars == <<recordsVars, requestVars, serviceVars, callVars>>
notRecordsVars == <<gatewayVars, requestVars, serviceVars, callVars>>
notRequestVars == <<gatewayVars, recordsVars, serviceVars, callVars>>
notServiceVars == <<gatewayVars, recordsVars, requestVars, callVars>>
notCallVars == <<gatewayVars, recordsVars, requestVars, serviceVars>>

vars == <<gatewayVars, recordsVars, requestVars, serviceVars, callVars>>

----------------------------------------------------------------------------
(* Bounds of the model *)

MaxFrags == 3        \* fragments in an error text given to the classifier
MaxFlowFrags == 2    \* fragments in an error text raised inside a request
MaxTextLen == 2      \* characters in a reply text of the remote model
MaxPromptLen == 1    \* characters in a prompt passed by a direct caller
MaxPages == 2        \* pages of a small notes project
MaxManyPages == 11   \* pages of a large notes project
MaxRequests == 3     \* requests received by the process
MaxLimit == 2        \* the configured requests per minute
MaxInFlight == 2     \* requests received and not yet answered
MaxClock == 120      \* seconds the clock runs
MaxCalls == 3        \* calls that ask for a service handle
MaxKeywords == 5     \* weakness keywords given to the fallback
MaxProgressPages == 4 \* pages given to the fallback
MaxListedPages == 21 \* pages in the list of a project, get_recent_pages alone

----------------------------------------------------------------------------
(* Optional values *)

None == << >>
Some(v) == <<v>>

----------------------------------------------------------------------------
(* Python str operations *)

Digits == {"0", "1", "2", "3", "4", "5", "6", "7", "8", "9"}

DigitVal(c) ==
    CASE c = "0" -> 0 [] c = "1" -> 1 [] c = "2" -> 2 [] c = "3" -> 3
      [] c = "4" -> 4 [] c = "5" -> 5 [] c = "6" -> 6 [] c = "7" -> 7
      [] c = "8" -> 8 [] c = "9" -> 9

UpperCase == <<"A", "B", "C", "D", "E", "F", "G", "H", "I", "J", "K", "L", "M",
               "N", "O", "P", "Q", "R", "S", "T", "U", "V", "W", "X", "Y", "Z">>
LowerCase == <<"a", "b", "c", "d", "e", "f", "g", "h", "i", "j", "k", "l", "m",
               "n", "o", "p", "q", "r", "s", "t", "u", "v", "w", "x", "y", "z">>

LowerChar(c) ==
    IF \E k \in 1..26 : UpperCase[k] = c
    THEN LowerCase[CHOOSE k \in 1..26 : UpperCase[k] = c]
    ELSE c

\* str.lower()
lower(s) == [i \in 1..Len(s) |-> LowerChar(s[i])]

\* sub occurs in s at position i
StartsAt(s, sub, i) ==
    /\ i >= 1
    /\ i + Len(sub) - 1 <= Len(s)
    /\ \A k \in 1..Len(sub) : s[i + k - 1] = sub[k]

\* the expression `sub in s`
In(sub, s) == \E i \in 1..(Len(s) - Len(sub) + 1) : StartsAt(s, sub, i)

Whitespace == {" ", "\n", "\t"}

\* str.strip(): drop leading and trailing whitespace
strip(s) ==
    LET keep == {i \in 1..Len(s) : s[i] \notin Whitespace}
    IN IF keep = {} THEN << >>
       ELSE LET lo == CHOOSE i \in keep : \A j \in keep : i <= j
                hi == CHOOSE i \in keep : \A j \in keep : j <= i
            IN SubSeq(s, lo, hi)

\* int() of a non-empty run of decimal digits
RECURSIVE int(_)
int(ds) ==
    IF Len(ds) = 0 THEN 0
    ELSE 10 * int(SubSeq(ds, 1, Len(ds) - 1)) + DigitVal(ds[Len(ds)])

\* the group (\d) in place of (\d+): one digit only
DigitRunOneDigit(s, i) ==
    IF i <= Len(s) /\ s[i] \in Digits THEN <<s[i]>> ELSE << >>

\* the greedy group (\d+) starting at position i
DigitRun(s, i) ==
    LET ends == {j \in i..Len(s) : \A k \in i..j : s[k] \in Digits}
    IN IF ends = {} THEN << >>
       ELSE SubSeq(s, i, CHOOSE j \in ends : \A k \in ends : k <= j)

Min(S) == CHOOSE x \in S : \A y \in S : x <= y

----------------------------------------------------------------------------
(* Text constants of the source, as character sequences *)

S429 == <<"4", "2", "9">>
S400 == <<"4", "0", "0">>
S500 == <<"5", "0", "0">>
SQuota == <<"q", "u", "o", "t", "a">>
SExceeded == <<"e", "x", "c", "e", "e", "d", "e", "d">>
SFreeTier == <<"F", "r", "e", "e", "T", "i", "e", "r">>
SRetryDelay == <<"r", "e", "t", "r", "y", "_", "d", "e", "l", "a", "y">>
SSeconds == <<"s", "e", "c", "o", "n", "d", "s", ":", " ">>
SEmptyResponse == <<"E", "m", "p", "t", "y", " ", "r", "e", "s", "p", "o", "n", "s", "e",
                    " ", "f", "r", "o", "m", " ", "G", "e", "m", "i", "n", "i">>

\* the user-facing messages (Japanese in the source), by meaning
MsgRateLimitFreeTier == "rate limit of the free tier reached, retry later"
MsgRateLimit == "rate limit reached, retry later"
MsgQuotaExceeded == "usage limit reached, check the plan"
MsgApiError == "API connection error, retry later"
MsgUnexpected == "unexpected error"

----------------------------------------------------------------------------
(* app/core/exceptions.py *)

GeminiRateLimitError(message, retry_after_seconds) ==
    [cls |-> "GeminiRateLimitError", message |-> message,
     retry_after_seconds |-> retry_after_seconds]

GeminiQuotaExceededError(message) ==
    [cls |-> "GeminiQuotaExceededError", message |-> message, quota_type |-> None]

GeminiAPIError(message, status_code) ==
    [cls |-> "GeminiAPIError", message |-> message, status_code |-> status_code]

GeminiConfigurationError(message) ==
    [cls |-> "GeminiConfigurationError", message |-> message]

\* an exception of class cls whose str() is the character sequence text
RawError(cls, text) == [cls |-> cls, text |-> text]

\* str(error)
str(error) == error.text

----------------------------------------------------------------------------
(* GeminiService._parse_api_error *)

\* re.search(r'retry_delay.*?seconds: (\d+)', s): the match starts at the
\* leftmost retry_delay from which it can succeed; the lazy .*? (which does
\* not cross a newline) stops at the nearest "seconds: " followed by a
\* digit; the group takes the whole run of digits.
RetryMatchEnds(s, i) ==
    {j \in (i + Len(SRetryDelay))..Len(s) :
        /\ StartsAt(s, SSeconds, j)
        /\ j + Len(SSeconds) <= Len(s)
        /\ s[j + Len(SSeconds)] \in Digits
        /\ \A k \in (i + Len(SRetryDelay))..(j - 1) : s[k] # "\n"}

RetryMatchStarts(s) ==
    {i \in 1..Len(s) : StartsAt(s, SRetryDelay, i) /\ RetryMatchEnds(s, i) # {}}

retry_match(s) ==
    IF RetryMatchStarts(s) = {} THEN None
    ELSE LET i == Min(RetryMatchStarts(s))
             j == Min(RetryMatchEnds(s, i))
         IN Some(DigitRun(s, j + Len(SSeconds)))

\* a search that returns the 400 or 500 that selected the rule
status_match_of_rule(s) ==
    LET starts == {i \in 1..(Len(s) - 2) : StartsAt(s, S400, i) \/ StartsAt(s, S500, i)}
    IN IF starts = {} THEN None
       ELSE Some(SubSeq(s, Min(starts), Min(starts) + 2))

\* re.search(r'(\d{3})', s): the leftmost three consecutive digits
status_match(s) ==
    LET starts == {i \in 1..(Len(s) - 2) : \A k \in 0..2 : s[i + k] \in Digits}
    IN IF starts = {} THEN None
       ELSE Some(SubSeq(s, Min(starts), Min(starts) + 2))

\* the classifier with the quota rule tried before the rate-limit rule
_parse_api_error_quota_first(error) ==
    LET error_str == str(error)
    IN  IF In(SQuota, lower(error_str)) /\ In(SExceeded, lower(error_str))
        THEN GeminiQuotaExceededError(MsgQuotaExceeded)
        ELSE IF In(S429, error_str) /\ In(SQuota, lower(error_str))
        THEN LET rm == retry_match(error_str)
                 retry_seconds == IF rm # None THEN Some(int(rm[1])) ELSE None
             IN IF In(SFreeTier, error_str)
                THEN GeminiRateLimitError(MsgRateLimitFreeTier, retry_seconds)
                ELSE GeminiRateLimitError(MsgRateLimit, retry_seconds)
        ELSE IF In(S400, error_str) \/ In(S500, error_str)
        THEN LET sm == status_match(error_str)
                 status_code == IF sm # None THEN Some(int(sm[1])) ELSE None
             IN GeminiAPIError(MsgApiError, status_code)
        ELSE GeminiAPIError(MsgUnexpected, None)

_parse_api_error(error) ==
    LET error_str == str(error)
    IN  IF In(S429, error_str) /\ In(SQuota, lower(error_str))
        THEN LET rm == retry_match(error_str)
                 retry_seconds == IF rm # None THEN Some(int(rm[1])) ELSE None
             IN IF In(SFreeTier, error_str)
                THEN GeminiRateLimitError(MsgRateLimitFreeTier, retry_seconds)
                ELSE GeminiRateLimitError(MsgRateLimit, retry_seconds)
        ELSE IF In(SQuota, lower(error_str)) /\ In(SExceeded, lower(error_str))
        THEN GeminiQuotaExceededError(MsgQuotaExceeded)
        ELSE IF In(S400, error_str) \/ In(S500, error_str)
        THEN LET sm == status_match(error_str)
                 status_code == IF sm # None THEN Some(int(sm[1])) ELSE None
             IN GeminiAPIError(MsgApiError, status_code)
        ELSE GeminiAPIError(MsgUnexpected, None)

\* GeminiService._should_log_error
_should_log_error(error) == error.cls # "GeminiRateLimitError"

----------------------------------------------------------------------------
(* Inputs: error texts, reply texts and prompts *)

RECURSIVE Flatten(_)
Flatten(ss) == IF Len(ss) = 0 THEN << >> ELSE Head(ss) \o Flatten(Tail(ss))

SeqsUpTo(S, n) == UNION {[1..k -> S] : k \in 0..n}

\* pieces of upstream error messages that the classifier's rules look for
Fragments ==
    { S429, SQuota, <<"Q", "U", "O", "T", "A">>, <<" ">> \o SExceeded,
      S400, S500, <<"1">>, SFreeTier }

\* retry information at the end of an upstream error message
TailNone == << >>
TailRetry20 ==
    SRetryDelay \o <<" ", "{", " ">> \o SSeconds \o <<"2", "0", " ", "}">>
TailRetryMultiLine ==
    SRetryDelay \o <<" ", "{", "\n", " ", " ">> \o SSeconds \o <<"2", "0", "\n", "}">>
TailRetryNotANumber ==
    SRetryDelay \o <<" ", "{", " ">> \o SSeconds \o <<"x", " ", "}", " ">>
        \o SSeconds \o <<"7">>
TailSecondsBeforeRetry == SSeconds \o <<"5", " ">> \o SRetryDelay
TailRetryZero == SRetryDelay \o <<" ">> \o SSeconds \o <<"0">>
TailRetryTwice ==
    SRetryDelay \o <<" ", "{", " ">> \o SSeconds \o <<"3", " ", "}", " ">> \o TailRetry20

RetryTails ==
    { TailNone, TailRetry20, TailRetryMultiLine, TailRetryNotANumber,
      TailSecondsBeforeRetry, TailRetryZero, TailRetryTwice }

FlowTails == { TailNone, TailRetry20 }

ErrorTexts(n, tails) ==
    { Flatten(fs) \o t : fs \in SeqsUpTo(Fragments, n), t \in tails }

TextChars == {"a", " ", "\n"}
ReplyTexts == SeqsUpTo(TextChars, MaxTextLen)

PromptChars == {"p", "\n"}
Prompts == SeqsUpTo(PromptChars, MaxPromptLen)
OptionalPrompts == {None} \cup {Some(p) : p \in Prompts}

----------------------------------------------------------------------------
(* app/core/prompts.py: the registered templates, each one text atom *)

Categories == {"learning_plan", "todo", "analysis", "advice", "goal"}

\* the text registered for a category and a slot
PromptText(category, prompt_type) == <<"<" \o category \o "." \o prompt_type \o ">">>

----------------------------------------------------------------------------
(* GeminiService.generate_text *)

\* the prompt builder testing `is not None` in place of truthiness
_build_full_prompt_not_none(sp, up) ==
    IF sp # None
    THEN sp[1] \o <<"\n", "\n">> \o up
    ELSE up

_build_full_prompt(sp, up) ==
    IF sp # None /\ sp[1] # << >>
    THEN sp[1] \o <<"\n", "\n">> \o up
    ELSE up

Pending == [kind |-> "pending"]
Return(value) == [kind |-> "return", value |-> value]
Raise(error) == [kind |-> "raise", error |-> error]

\* generate_text re-raising the exception it caught
generate_text_outcome_reraise(r) ==
    IF r.kind = "response"
    THEN IF r.text = << >>
         THEN Raise(RawError("ValueError", SEmptyResponse))
         ELSE Return(strip(r.text))
    ELSE Raise(r.error)

\* lines 164-178: what generate_text does with the outcome of generate_content
generate_text_outcome(r) ==
    IF r.kind = "response"
    THEN IF r.text = << >>
         THEN Raise(_parse_api_error(RawError("ValueError", SEmptyResponse)))
         ELSE Return(strip(r.text))
    ELSE Raise(_parse_api_error(r.error))

----------------------------------------------------------------------------
(* app/api/v1/endpoints/ai.py *)

Endpoints == {"plan", "todo", "analysis", "advice", "goals", "scrapbox-todo"}
Direct == "direct"    \* generate_text called without an endpoint around it

\* the template category each endpoint renders
CategoryOf(ep) ==
    CASE ep = "plan" -> "learning_plan"
      [] ep = "todo" -> "todo"
      [] ep = "analysis" -> "analysis"
      [] ep = "advice" -> "advice"
      [] ep = "goals" -> "goal"
      [] ep = "scrapbox-todo" -> "todo"

GeminiErrorClasses ==
    {"GeminiRateLimitError", "GeminiQuotaExceededError", "GeminiAPIError",
     "GeminiConfigurationError"}

\* the status_code of the HTTPException built by handle_gemini_error
handle_gemini_error(error) ==
    IF error.cls = "GeminiRateLimitError" THEN 429
    ELSE IF error.cls = "GeminiQuotaExceededError" THEN 429
    ELSE IF error.cls = "GeminiAPIError"
    THEN IF error.status_code # None /\ error.status_code[1] # 0
         THEN error.status_code[1]
         ELSE 502
    ELSE IF error.cls = "GeminiConfigurationError" THEN 500
    ELSE 500

\* POST /plan: gateway errors go through handle_gemini_error
generate_learning_plan(outcome) ==
    IF outcome.kind = "return" THEN 200
    ELSE IF outcome.error.cls \in GeminiErrorClasses
    THEN handle_gemini_error(outcome.error)
    ELSE 500

\* POST /todo, /analysis, /advice, /goals: except Exception -> 500
generate_todo_list(outcome) == IF outcome.kind = "return" THEN 200 ELSE 500
analyze_progress(outcome) == IF outcome.kind = "return" THEN 200 ELSE 500
give_advice(outcome) == IF outcome.kind = "return" THEN 200 ELSE 500
set_goals(outcome) == IF outcome.kind = "return" THEN 200 ELSE 500

\* POST /scrapbox-todo/{project_name}: every exception through handle_gemini_error
generate_scrapbox_todo(outcome) ==
    IF outcome.kind = "return" THEN 200 ELSE handle_gemini_error(outcome.error)

EndpointStatus(ep, outcome) ==
    CASE ep = "plan" -> generate_learning_plan(outcome)
      [] ep = "todo" -> generate_todo_list(outcome)
      [] ep = "analysis" -> analyze_progress(outcome)
      [] ep = "advice" -> give_advice(outcome)
      [] ep = "goals" -> set_goals(outcome)
      [] ep = "scrapbox-todo" -> generate_scrapbox_todo(outcome)

----------------------------------------------------------------------------
(* The request in flight *)

\* no request has reached the gateway
GatewayIdle ==
    /\ pc = "idle"
    /\ endpoint = Direct
    /\ system_prompt = None
    /\ user_prompt = << >>
    /\ calls = << >>
    /\ reply = Pending
    /\ result = Pending
    /\ http_status = None

\* get_learning_records has not been called
RecordsIdle ==
    /\ rpc = "idle"
    /\ project_name = None
    /\ gemini_service = None
    /\ project = << >>
    /\ recent_pages = Pending
    /\ page_index = 0
    /\ page_contents = << >>
    /\ outbound = << >>
    /\ ai_result = Pending
    /\ learning_records = Pending

\* no request has been received
RequestsIdle ==
    /\ clock = 0
    /\ api_secret_key = <<"s">>
    /\ rate_limit_per_minute = 1
    /\ rate_limit_storage = [client_ip \in {"10.0.0.1", "unknown"} |-> << >>]
    /\ requests = << >>
    /\ decisions = << >>
    /\ handled = << >>

\* the threads and tasks that ask for a service handle
Callers == {"t1", "t2"}

\* no service handle has been asked for
ServicesIdle ==
    /\ gemini_api_key = <<"k">>
    /\ _gemini_service = None
    /\ _scrapbox_service = None
    /\ caller_pc = [c \in Callers |-> "idle"]
    /\ constructions = << >>
    /\ uses = << >>

\* no function has been called
CallsIdle ==
    /\ fn_call = [function |-> "none"]
    /\ fn_outcome = [kind |-> "pending"]

Init ==
    /\ GatewayIdle
    /\ RecordsIdle
    /\ RequestsIdle
    /\ ServicesIdle
    /\ CallsIdle

\* an endpoint handler calls its service method, which fetches the two
\* templates of its category, renders the user template and calls
\* generate_text(user_prompt, system_prompt)
EndpointRequest(ep) ==
    /\ pc = "idle"
    /\ endpoint' = ep
    /\ system_prompt' = Some(PromptText(CategoryOf(ep), "system"))
    /\ user_prompt' = PromptText(CategoryOf(ep), "user_template")
    /\ pc' = "generate"
    /\ UNCHANGED <<calls, reply, result, http_status, notGatewayVars>>

\* generate_text(prompt, system_prompt) called by any other caller
DirectCall(sp, up) ==
    /\ pc = "idle"
    /\ endpoint' = Direct
    /\ system_prompt' = sp
    /\ user_prompt' = up
    /\ pc' = "generate"
    /\ UNCHANGED <<calls, reply, result, http_status, notGatewayVars>>

\* generate_text, lines 154-162: build the prompt, hand it to the model
GenerateContent ==
    /\ pc = "generate"
    /\ calls' = Append(calls, _build_full_prompt(system_prompt, user_prompt))
    /\ pc' = "awaiting"
    /\ UNCHANGED <<endpoint, system_prompt, user_prompt, reply, result, http_status, notGatewayVars>>

\* model.generate_content returns a response with this text
ModelReturns(text) ==
    /\ pc = "awaiting"
    /\ reply' = [kind |-> "response", text |-> text]
    /\ pc' = "replied"
    /\ UNCHANGED <<endpoint, system_prompt, user_prompt, calls, result, http_status, notGatewayVars>>

\* model.generate_content raises an exception with this text
ModelRaises(text) ==
    /\ pc = "awaiting"
    /\ reply' = [kind |-> "exception", error |-> RawError("Exception", text)]
    /\ pc' = "replied"
    /\ UNCHANGED <<endpoint, system_prompt, user_prompt, calls, result, http_status, notGatewayVars>>

\* generate_text calling the model again after a failure
GenerateTextFinishRetry ==
    /\ pc = "replied"
    /\ LET outcome == generate_text_outcome(reply)
       IN IF outcome.kind = "raise" /\ Len(calls) < 2
          THEN pc' = "generate" /\ result' = result
          ELSE pc' = "finished" /\ result' = outcome
    /\ UNCHANGED <<endpoint, system_prompt, user_prompt, calls, reply, http_status, notGatewayVars>>

\* generate_text, lines 164-178: return the stripped text or raise
GenerateTextFinish ==
    /\ pc = "replied"
    /\ result' = generate_text_outcome(reply)
    /\ pc' = "finished"
    /\ UNCHANGED <<endpoint, system_prompt, user_prompt, calls, reply, http_status, notGatewayVars>>

\* the endpoint handler turns the outcome into the HTTP response
EndpointRespond ==
    /\ pc = "finished"
    /\ endpoint \in Endpoints
    /\ http_status' = Some(EndpointStatus(endpoint, result))
    /\ pc' = "responded"
    /\ UNCHANGED <<endpoint, system_prompt, user_prompt, calls, reply, result, notGatewayVars>>

Next ==
    \/ \E ep \in Endpoints : EndpointRequest(ep)
    \/ \E sp \in OptionalPrompts, up \in Prompts : DirectCall(sp, up)
    \/ GenerateContent
    \/ \E text \in ReplyTexts : ModelReturns(text)
    \/ \E text \in ErrorTexts(MaxFlowFrags, FlowTails) : ModelRaises(text)
    \/ GenerateTextFinish
    \/ EndpointRespond

Spec == Init /\ [][Next]_vars

----------------------------------------------------------------------------
(* The classifier alone, over every error text of the bound *)

InitClassify ==
    /\ pc = "classify"
    /\ endpoint = Direct
    /\ system_prompt = None
    /\ user_prompt = << >>
    /\ calls = << >>
    /\ reply \in {[kind |-> "exception", error |-> RawError("Exception", text)] :
                    text \in ErrorTexts(MaxFrags, RetryTails)}
    /\ result = Pending
    /\ http_status = None
    /\ RecordsIdle
    /\ RequestsIdle
    /\ ServicesIdle
    /\ CallsIdle

Classify ==
    /\ pc = "classify"
    /\ result' = Return(_parse_api_error(reply.error))
    /\ pc' = "classified"
    /\ UNCHANGED <<endpoint, system_prompt, user_prompt, calls, reply, http_status, notGatewayVars>>

NextClassify == Classify

SpecClassify == InitClassify /\ [][NextClassify]_vars

----------------------------------------------------------------------------
(* Properties *)

Finished == pc \in {"finished", "responded"}

\* C1: the prompt generate_text sends to the remote model is
\* system_prompt + "\n\n" + user_prompt when system_prompt is non-empty, and
\* user_prompt alone when system_prompt is absent or empty.
C1_CombinedPrompt ==
    \A i \in 1..Len(calls) :
        /\ (system_prompt # None /\ Len(system_prompt[1]) > 0)
              => calls[i] = system_prompt[1] \o <<"\n", "\n">> \o user_prompt
        /\ (system_prompt = None \/ system_prompt = Some(<< >>))
              => calls[i] = user_prompt

\* a direct call with an empty (not absent) system prompt has reached the model
C1_Witness ==
    /\ Len(calls) = 1
    /\ system_prompt = Some(<< >>)
    /\ user_prompt = <<"p">>

\* C2: every call of generate_text invokes the remote model exactly once,
\* whether the call succeeds or fails; a failed call is never retried.
C2_ExactlyOneRemoteCall ==
    /\ pc \in {"idle", "generate"} => Len(calls) = 0
    /\ pc \in {"awaiting", "replied"} => Len(calls) = 1
    /\ Finished => Len(calls) = 1

\* an endpoint's generate_text call has failed after one remote call
C2_Witness ==
    /\ pc = "finished"
    /\ endpoint = "plan"
    /\ result.kind = "raise"
    /\ Len(calls) = 1

\* C3: whenever generate_text returns normally, the returned text is
\* non-empty after trimming surrounding whitespace.
C3_ReturnedTextNonEmpty ==
    (Finished /\ result.kind = "return") => strip(result.value) # << >>

\* C4: when the remote model returns an empty text, generate_text raises
\* ValueError('Empty response from Gemini').
C4_EmptyResponseIsValueError ==
    (Finished /\ reply.kind = "response" /\ reply.text = << >>)
        => result = Raise(RawError("ValueError", SEmptyResponse))

\* C5: for every failure of the remote call, the exception that escapes
\* generate_text is the classifier's output, one of GeminiRateLimitError,
\* GeminiQuotaExceededError and GeminiAPIError, never the raw exception.
C5_OnlyClassifiedErrorsEscape ==
    (Finished /\ reply.kind = "exception")
        => /\ result.kind = "raise"
           /\ result.error.cls \in
                {"GeminiRateLimitError", "GeminiQuotaExceededError", "GeminiAPIError"}
           /\ result.error # reply.error
           /\ result.error = _parse_api_error(reply.error)

\* a remote failure has escaped generate_text as a quota error
C5_Witness ==
    /\ pc = "finished"
    /\ reply.kind = "exception"
    /\ result.kind = "raise"
    /\ result.error.cls = "GeminiQuotaExceededError"

\* the rules of the classifier, read off the error text
RuleRateLimit(s) == In(S429, s) /\ In(SQuota, lower(s))
RuleQuota(s) == In(SQuota, lower(s)) /\ In(SExceeded, lower(s))
RuleGenericApi(s) == In(S400, s) \/ In(S500, s)

\* C6: every error text maps to exactly one of RateLimited, QuotaExceeded and
\* ApiError, chosen by the first matching rule in the order rate-limit,
\* quota, generic-api, fallback.
C6_RulePrecedence ==
    pc = "classified" =>
        LET s == reply.error.text
            e == result.value
        IN /\ e.cls \in {"GeminiRateLimitError", "GeminiQuotaExceededError",
                         "GeminiAPIError"}
           /\ RuleRateLimit(s) => e.cls = "GeminiRateLimitError"
           /\ (~RuleRateLimit(s) /\ RuleQuota(s)) => e.cls = "GeminiQuotaExceededError"
           /\ (~RuleRateLimit(s) /\ ~RuleQuota(s) /\ RuleGenericApi(s))
                 => (e.cls = "GeminiAPIError" /\ e.message = MsgApiError)
           /\ (~RuleRateLimit(s) /\ ~RuleQuota(s) /\ ~RuleGenericApi(s))
                 => (e.cls = "GeminiAPIError" /\ e.message = MsgUnexpected)

\* a text with '429', 'quota' and 'exceeded' has been classified RateLimited
C6_Witness ==
    /\ pc = "classified"
    /\ In(S429, reply.error.text)
    /\ RuleQuota(reply.error.text)
    /\ result.value.cls = "GeminiRateLimitError"

\* positions of a "seconds: <digit>" that follows a retry_delay on the same line
RetryPatternAt(s) ==
    {j \in 1..Len(s) :
        /\ StartsAt(s, SSeconds, j)
        /\ j + Len(SSeconds) <= Len(s)
        /\ s[j + Len(SSeconds)] \in Digits
        /\ \E i \in 1..j :
              /\ StartsAt(s, SRetryDelay, i)
              /\ i + Len(SRetryDelay) <= j
              /\ \A k \in (i + Len(SRetryDelay))..(j - 1) : s[k] # "\n"}

\* the number written at position i: the digits up to the first non-digit
NumberAt(s, i) ==
    LET stop == Min({k \in i..(Len(s) + 1) : k = Len(s) + 1 \/ s[k] \notin Digits})
    IN int(SubSeq(s, i, stop - 1))

ThreeDigitsAt(s) == {i \in 1..(Len(s) - 2) : \A k \in 0..2 : s[i + k] \in Digits}

\* C8: for an error text that the rate-limit and quota rules do not match and
\* that contains 400 or 500, the classifier returns ApiError whose status_code
\* is the first three digits found in the text; for a text matching no rule
\* it returns ApiError with status_code unset.
C8_StatusCode ==
    (pc = "classified" /\ ~RuleRateLimit(reply.error.text) /\ ~RuleQuota(reply.error.text)) =>
        LET s == reply.error.text
            e == result.value
        IN /\ e.cls = "GeminiAPIError"
           /\ RuleGenericApi(s) =>
                 \E i \in ThreeDigitsAt(s) :
                    /\ \A j \in ThreeDigitsAt(s) : i <= j
                    /\ e.status_code =
                          Some(100 * DigitVal(s[i]) + 10 * DigitVal(s[i + 1])
                                 + DigitVal(s[i + 2]))
           /\ ~RuleGenericApi(s) => e.status_code = None

\* a text containing 400 got a status_code that is neither 400 nor 500
C8_Witness ==
    /\ pc = "classified"
    /\ In(S400, reply.error.text)
    /\ result.value.cls = "GeminiAPIError"
    /\ result.value.message = MsgApiError
    /\ result.value.status_code \notin {None, Some(400), Some(500)}

\* C9: on every AI endpoint that calls the gateway, a gateway failure
\* classified RateLimited or QuotaExceeded reaches the client as HTTP 429.
C9_LimitErrorsAre429 ==
    (pc = "responded" /\ result.kind = "raise"
        /\ result.error.cls \in {"GeminiRateLimitError", "GeminiQuotaExceededError"})
        => http_status = Some(429)

\* C10: for every gateway failure classified ApiError, ConfigurationError or
\* unknown, the HTTP status returned to the client is a 5xx code.
C10_OtherErrorsAre5xx ==
    (pc = "responded" /\ result.kind = "raise"
        /\ result.error.cls \notin {"GeminiRateLimitError", "GeminiQuotaExceededError"})
        => (http_status # None /\ http_status[1] >= 500 /\ http_status[1] <= 599)

----------------------------------------------------------------------------
(* app/services/scrapbox_service.py: text constants.  A character outside
   ASCII is written by its code point, one sequence element per character. *)

\* line 148: the project is not configured
SNotConfigured ==
    <<"S", "c", "r", "a", "p", "b", "o", "x", "U+30D7", "U+30ED", "U+30B8", "U+30A7",
      "U+30AF", "U+30C8", "U+304C", "U+8A2D", "U+5B9A", "U+3055", "U+308C", "U+3066",
      "U+3044", "U+307E", "U+305B", "U+3093">>

\* lines 158, 302: no recent learning records found
SNoRecentRecords ==
    <<"U+6700", "U+8FD1", "U+306E", "U+5B66", "U+7FD2", "U+8A18", "U+9332", "U+304C",
      "U+898B", "U+3064", "U+304B", "U+308A", "U+307E", "U+305B", "U+3093">>

\* line 159: there is no data to analyse
SNoDataToAnalyze ==
    <<"U+5206", "U+6790", "U+3067", "U+304D", "U+308B", "U+30C7", "U+30FC", "U+30BF",
      "U+304C", "U+3042", "U+308A", "U+307E", "U+305B", "U+3093">>

\* line 374: the AI service is not available
SAiUnavailable ==
    <<"A", "I", "U+30B5", "U+30FC", "U+30D3", "U+30B9", "U+304C", "U+5229", "U+7528",
      "U+3067", "U+304D", "U+307E", "U+305B", "U+3093">>

\* line 434: an error occurred in the AI analysis
SAiError ==
    <<"A", "I", "U+89E3", "U+6790", "U+3067", "U+30A8", "U+30E9", "U+30FC", "U+304C",
      "U+767A", "U+751F", "U+3057", "U+307E", "U+3057", "U+305F">>

\* line 418: the AI analysis gave no result
SAiNoResult ==
    <<"A", "I", "U+306B", "U+3088", "U+308B", "U+89E3", "U+6790", "U+7D50", "U+679C",
      "U+304C", "U+53D6", "U+5F97", "U+3067", "U+304D", "U+307E", "U+305B", "U+3093",
      "U+3067", "U+3057", "U+305F">>

\* line 217: an error occurred fetching the data
SFetchError ==
    <<"U+30C7", "U+30FC", "U+30BF", "U+53D6", "U+5F97", "U+30A8", "U+30E9", "U+30FC",
      "U+304C", "U+767A", "U+751F", "U+3057", "U+307E", "U+3057", "U+305F">>

\* line 337: learning activity continues
SContinuing ==
    <<"U+5B66", "U+7FD2", "U+6D3B", "U+52D5", "U+3092", "U+7D99", "U+7D9A", "U+4E2D">>

\* line 350: no particular weak areas found
SNoWeakAreas ==
    <<"U+7279", "U+306B", "U+5F31", "U+70B9", "U+306F", "U+898B", "U+3064", "U+304B",
      "U+308A", "U+307E", "U+305B", "U+3093", "U+3067", "U+3057", "U+305F">>

\* line 359: improving by continued learning
SImproving ==
    <<"U+7D99", "U+7D9A", "U+7684", "U+306A", "U+5B66", "U+7FD2", "U+306B", "U+3088",
      "U+308A", "U+6539", "U+5584", "U+4E2D">>

\* line 424: the label 'recent progress:'
SProgressLabel ==
    <<"U+6700", "U+8FD1", "U+306E", "U+9032", "U+6357", ":">>

\* line 426: the label 'weak areas:'
SWeakLabel ==
    <<"U+5F31", "U+70B9", "U+5206", "U+91CE", ":">>

\* line 312
SOpenQuote ==
    <<"U+300C">>

\* line 312: 'learned about'
SAboutSuffix ==
    <<"U+300D", "U+306B", "U+3064", "U+3044", "U+3066", "U+5B66", "U+7FD2">>

\* lines 315-323: implemented, created, learned, understood, completed, tried, tried out
activity_patterns ==
    << <<"U+5B9F", "U+88C5", "U+3057", "U+305F">>,
       <<"U+4F5C", "U+6210", "U+3057", "U+305F">>,
       <<"U+5B66", "U+7FD2", "U+3057", "U+305F">>,
       <<"U+7406", "U+89E3", "U+3057", "U+305F">>,
       <<"U+5B8C", "U+4E86", "U+3057", "U+305F">>,
       <<"U+8A66", "U+3057", "U+305F">>,
       <<"U+3084", "U+3063", "U+3066", "U+307F", "U+305F">> >>

\* lines 274-283: the trigger words of the weakness patterns
weakness_patterns ==
    << <<"U+82E6", "U+624B">>,
       <<"U+96E3", "U+3057", "U+3044">>,
       <<"U+308F", "U+304B", "U+3089", "U+306A", "U+3044">>,
       <<"U+8AB2", "U+984C">>,
       <<"U+554F", "U+984C">>,
       <<"U+30A8", "U+30E9", "U+30FC">>,
       <<"U+3064", "U+307E", "U+3065">>,
       <<"U+8A70", "U+307E", "U+3063">> >>

\* 'implemented the API'
BodyActivity ==
    <<"A", "P", "I", "U+3092", "U+5B9F", "U+88C5", "U+3057", "U+305F">>

\* 'weak at: SQL, problem JOIN'
BodyWeakness ==
    <<"U+82E6", "U+624B", ":", "S", "Q", "L", " ", "U+554F", "U+984C", "J", "O", "I",
      "N">>

\* no trigger word
BodyPlain ==
    <<"m", "e", "m", "o">>

\* a page title
TitlePython ==
    <<"P", "y">>

\* the characters of the texts above that lie in the ranges of the class
\* [U+30A1-U+30F6 U+30FC U+4E00-U+9FAF a-zA-Z0-9] of lines 275-282
Katakana == {"U+30A8", "U+30E9"}
ProlongedSound == {"U+30FC"}
Kanji ==
    {"U+4E86", "U+4F5C", "U+554F", "U+5B66", "U+5B8C", "U+5B9F", "U+6210", "U+624B",
     "U+7406", "U+7FD2",
     "U+82E6", "U+88C5", "U+89E3", "U+8A66", "U+8A70", "U+8AB2", "U+96E3", "U+984C"}

----------------------------------------------------------------------------
(* More Python str and list operations *)

Max(S) == CHOOSE x \in S : \A y \in S : y <= x

\* s.startswith(prefix)
startswith(s, prefix) == StartsAt(s, prefix, 1)

\* s.split("\n")
RECURSIVE split_lines(_)
split_lines(s) ==
    LET breaks == {i \in 1..Len(s) : s[i] = "\n"}
    IN IF breaks = {} THEN <<s>>
       ELSE <<SubSeq(s, 1, Min(breaks) - 1)>>
               \o split_lines(SubSeq(s, Min(breaks) + 1, Len(s)))

\* s.replace(old, ""), old not empty
RECURSIVE remove_all(_, _)
remove_all(s, old) ==
    LET at == {i \in 1..Len(s) : StartsAt(s, old, i)}
    IN IF at = {} THEN s
       ELSE SubSeq(s, 1, Min(at) - 1)
               \o remove_all(SubSeq(s, Min(at) + Len(old), Len(s)), old)

\* sep.join(items)
RECURSIVE join(_, _)
join(sep, items) ==
    IF Len(items) = 0 THEN << >>
    ELSE IF Len(items) = 1 THEN items[1]
    ELSE items[1] \o sep \o join(sep, Tail(items))

\* items[:n]
Take(items, n) == SubSeq(items, 1, IF Len(items) < n THEN Len(items) ELSE n)

----------------------------------------------------------------------------
(* ScrapboxService: the keyword heuristics *)

\* the class [U+30A1-U+30F6 U+30FC U+4E00-U+9FAF a-zA-Z0-9]
KeywordChars ==
    Katakana \cup ProlongedSound \cup Kanji \cup Digits
        \cup {LowerCase[k] : k \in 1..26} \cup {UpperCase[k] : k \in 1..26}

\* re.findall(trigger + r".*?([class]+)", text) from position pos on: the
\* leftmost trigger after which, on the same line, a character of the class
\* follows; the group is the run of class characters that starts at the
\* nearest one; the scan goes on behind the group.
KeywordStarts(text, trigger, i) ==
    {j \in (i + Len(trigger))..Len(text) :
        /\ text[j] \in KeywordChars
        /\ \A k \in (i + Len(trigger))..(j - 1) : text[k] # "\n"}

RECURSIVE findall_after(_, _, _)
findall_after(text, trigger, pos) ==
    LET starts == {i \in pos..Len(text) :
                      StartsAt(text, trigger, i) /\ KeywordStarts(text, trigger, i) # {}}
    IN IF starts = {} THEN << >>
       ELSE LET i == Min(starts)
                j == Min(KeywordStarts(text, trigger, i))
                k == Max({e \in j..Len(text) : \A m \in j..e : text[m] \in KeywordChars})
            IN <<SubSeq(text, j, k)>> \o findall_after(text, trigger, k + 1)

Range(f) == {f[i] : i \in DOMAIN f}

\* _extract_weakness_keywords: list(set(keywords)), as the set
_extract_weakness_keywords(title, content) ==
    LET text == title \o <<" ">> \o content
    IN UNION {Range(findall_after(text, weakness_patterns[n], 1)) :
                n \in DOMAIN weakness_patterns}

\* re.search(".{0,20}" + pattern + ".{0,20}", content).group(): the match
\* starts at the leftmost position from which pattern is at most 20
\* characters of the line away, reaches the farthest such occurrence and
\* goes on for up to 20 characters of the line behind it
activity_context(content, pattern) ==
    LET reach(p) == {q \in p..(p + 20) :
                        /\ StartsAt(content, pattern, q)
                        /\ \A k \in p..(q - 1) : content[k] # "\n"}
        p0 == Min({p \in 1..Len(content) : reach(p) # {}})
        q0 == Max(reach(p0))
        e0 == q0 + Len(pattern) - 1
        e1 == Max({e \in e0..(e0 + 20) :
                      e <= Len(content) /\ \A k \in (e0 + 1)..e : content[k] # "\n"})
    IN SubSeq(content, p0, e1)

\* the fragments of one page: the title fragment, then the context of the
\* first activity pattern that occurs in the body
page_progress_items(page) ==
    LET found == {n \in DOMAIN activity_patterns : In(activity_patterns[n], page.content)}
    IN (IF page.title # << >>
        THEN <<SOpenQuote \o page.title \o SAboutSuffix>> ELSE << >>)
       \o (IF found # {}
           THEN <<strip(activity_context(page.content, activity_patterns[Min(found)]))>>
           ELSE << >>)

RECURSIVE progress_items(_)
progress_items(pages) ==
    IF Len(pages) = 0 THEN << >>
    ELSE page_progress_items(Head(pages)) \o progress_items(Tail(pages))

\* _generate_recent_progress reading every page
_generate_recent_progress_all_pages(contents) ==
    IF Len(contents) = 0 THEN SNoRecentRecords
    ELSE LET items == progress_items(contents)
         IN IF Len(items) > 0
            THEN join(<<" ", "/", " ">>, Take(items, 3))
            ELSE SContinuing

_generate_recent_progress(contents) ==
    IF Len(contents) = 0 THEN SNoRecentRecords
    ELSE LET items == progress_items(Take(contents, 3))
         IN IF Len(items) > 0
            THEN join(<<" ", "/", " ">>, Take(items, 3))
            ELSE SContinuing

\* the first keywords of list(set(weak_keywords)) without the cut to three
TopKeywordListsAll(keywords) ==
    LET n == Cardinality(keywords)
    IN {l \in [1..n -> keywords] : \A a, b \in 1..n : a # b => l[a] # l[b]}

\* the orders in which list(set(keywords)) can enumerate the keywords, cut
\* to the first three
TopKeywordLists(keywords) ==
    LET n == IF Cardinality(keywords) < 3 THEN Cardinality(keywords) ELSE 3
    IN {l \in [1..n -> keywords] : \A a, b \in 1..n : a # b => l[a] # l[b]}

\* _generate_weak_areas: every value the call can return
_generate_weak_areas(weak_keywords) ==
    IF weak_keywords = {} THEN {SNoWeakAreas}
    ELSE {IF Len(top) > 0 THEN join(<<",", " ">>, top) ELSE SImproving :
            top \in TopKeywordLists(weak_keywords)}

----------------------------------------------------------------------------
(* The notes service: projects, their pages and its answers *)

\* datetime.now().timestamp() during the call, in seconds
Now == 1700000000

\* get_learning_records, line 154: the window in days
RecentDays == 90

\* get_learning_records, line 164: the pages whose body is fetched
MaxAnalyzedPages == 10

\* get_recent_pages, line 127
cutoff_time(days) == Now - (days * 24 * 60 * 60)

\* a JSON value under the key "updated" of a page
Number(n) == [type |-> "number", value |-> n]
JsonString == [type |-> "string"]
Missing == [type |-> "missing"]

\* answers of the notes service to GET /pages/{project}/{title}/text
TextOk(body) == [kind |-> "response", status_code |-> 200, text |-> body]
TextNotFound == [kind |-> "response", status_code |-> 404, text |-> <<"n", "o">>]
TransportError == [kind |-> "exception"]

\* a page of a project: what the page list says of it, and what the notes
\* service answers when its text is asked for
Page(title, updated, text) == [title |-> title, updated |-> updated, text |-> text]

PageKinds ==
    { Page(TitlePython, Number(Now), TextOk(BodyActivity)),
      Page(<< >>, Number(Now - 86400), TextOk(BodyWeakness)),
      Page(<<"a">>, Number(cutoff_time(RecentDays) + 1), TextOk(<< >>)),
      Page(<<"b">>, Number(Now), TextNotFound),
      Page(<<"c">>, Number(Now - 86400), TransportError),
      Page(<<"d">>, Number(cutoff_time(RecentDays)), TextOk(BodyPlain)),
      Page(<<"e">>, Missing, TextOk(BodyPlain)),
      Page(<<"f">>, JsonString, TextOk(BodyPlain)) }

\* the list entry of a page carries its position in the list as "id"
WithIds(pages) ==
    [i \in DOMAIN pages |->
        [id |-> i, title |-> pages[i].title, updated |-> pages[i].updated,
         text |-> pages[i].text]]

SmallProjects == {WithIds(ps) : ps \in SeqsUpTo(PageKinds, MaxPages)}

\* large projects: every page updated now; the newest pages last in the
\* list; every second page older than the window
ManyPagesPatterns == {"same", "newest_last", "half_old"}

ManyPagesUpdated(pattern, n, i) ==
    IF pattern = "same" THEN Now
    ELSE IF pattern = "newest_last" THEN Now - ((n - i) * 3600)
    ELSE IF i % 2 = 0 THEN cutoff_time(RecentDays) - i ELSE Now - i

ManyPages(pattern, n) ==
    [i \in 1..n |->
        [id |-> i, title |-> <<"n", LowerCase[i]>>,
         updated |-> Number(ManyPagesUpdated(pattern, n, i)),
         text |-> TextOk(BodyPlain)]]

LargeProjects ==
    {ManyPages(pattern, n) : pattern \in ManyPagesPatterns,
                             n \in (MaxAnalyzedPages + 1)..MaxManyPages}

Projects == SmallProjects \cup LargeProjects

\* answers of the notes service to GET /pages/{project}
ListOutcomes == {"200", "500", "exception"}

----------------------------------------------------------------------------
(* ScrapboxService: the fetches *)

TypeError == RawError("TypeError", <<"'", ">", "'">>)

\* get_pages_list, lines 57-70: the pages of a 200 answer, else []
get_pages_list(outcome, pages) == IF outcome = "200" THEN pages ELSE << >>

\* get_page_text returning the body of an answer of any status
get_page_text_any_status(answer) ==
    IF answer.kind = "response" THEN answer.text ELSE << >>

\* get_page_text, lines 89-102: the text of a 200 answer, else ""
get_page_text(answer) ==
    IF answer.kind = "response" /\ answer.status_code = 200 THEN answer.text ELSE << >>

\* page.get("updated", 0)
updated_of(page) == IF page.updated.type = "number" THEN page.updated.value ELSE 0

\* sorted(pages, key=updated, reverse=True): stable, equal keys keep
\* their order
SortRank(pages, i) ==
    1 + Cardinality({j \in DOMAIN pages :
                        \/ updated_of(pages[j]) > updated_of(pages[i])
                        \/ updated_of(pages[j]) = updated_of(pages[i]) /\ j < i})

\* the pages in the order of the list
sorted_by_updated_unsorted(pages) == pages

sorted_by_updated(pages) ==
    [r \in DOMAIN pages |-> pages[CHOOSE i \in DOMAIN pages : SortRank(pages, i) = r]]

\* get_recent_pages, lines 117-131; comparing a str with a number raises
get_recent_pages(pages, days) ==
    IF Len(pages) = 0 THEN Return(<< >>)
    ELSE IF \E i \in DOMAIN pages : pages[i].updated.type = "string"
    THEN Raise(TypeError)
    ELSE Return(SelectSeq(sorted_by_updated(pages),
                          LAMBDA page : updated_of(page) > cutoff_time(days)))

----------------------------------------------------------------------------
(* ScrapboxService._analyze_with_ai and get_learning_records *)

\* the two-field summary
Records(recent_progress, weak_areas) ==
    [recent_progress |-> recent_progress, weak_areas |-> weak_areas]

\* the value a labelled line gives: the label removed, the rest stripped
label_value(line, label) == strip(remove_all(line, label))

\* lines 418-429: the last line that starts with a label gives the field
parse_ai_response(response) ==
    LET lines == split_lines(strip(response))
        progress_lines ==
            {n \in DOMAIN lines : startswith(lines[n], SProgressLabel)}
        weak_lines ==
            {n \in DOMAIN lines : /\ ~startswith(lines[n], SProgressLabel)
                                  /\ startswith(lines[n], SWeakLabel)}
    IN IF response = << >> THEN Records(SAiNoResult, SAiNoResult)
       ELSE Records(
              IF progress_lines = {} THEN SAiNoResult
              ELSE label_value(lines[Max(progress_lines)], SProgressLabel),
              IF weak_lines = {} THEN SAiNoResult
              ELSE label_value(lines[Max(weak_lines)], SWeakLabel))

\* lines 413-436: what _analyze_with_ai makes of the outcome of generate_text
_analyze_with_ai(outcome) ==
    IF outcome.kind = "return"
    THEN parse_ai_response(outcome.value)
    ELSE Records(SAiError, SAiError)

\* lines 181-184: the results that send get_learning_records to the heuristics
FallbackTriggers == {SAiUnavailable, SAiError}

needs_fallback(analysed) ==
    \/ analysed.recent_progress \in FallbackTriggers
    \/ analysed.weak_areas \in FallbackTriggers

\* lines 188-209: every summary the keyword heuristics can give
fallback_records(contents) ==
    LET weak_areas_keywords ==
            UNION {_extract_weakness_keywords(contents[n].title, contents[n].content) :
                     n \in DOMAIN contents}
    IN {Records(_generate_recent_progress(contents), w) :
          w \in _generate_weak_areas(weak_areas_keywords)}

\* replies of the remote model to the analysis prompt
AiBothLabels ==
    SProgressLabel \o <<" ", "o", "k", "\n">> \o SWeakLabel \o <<" ", "S", "Q", "L", " ">>
AiNoLabels == <<"x">>
AiOnlyProgress == SProgressLabel \o <<"o", "k">>
AiIndentedLabels ==
    <<"x", "\n", " ">> \o SProgressLabel \o <<"o", "k", "\n", " ">> \o SWeakLabel \o <<"S">>
AiBlank == <<" ">>
AiEchoesTrigger == SProgressLabel \o SAiUnavailable \o <<"\n">> \o SWeakLabel \o <<"S">>

AiReplies ==
    {[kind |-> "response", text |-> text] :
        text \in {AiBothLabels, AiNoLabels, AiOnlyProgress, AiIndentedLabels,
                  AiBlank, AiEchoesTrigger, << >>}}
    \cup {[kind |-> "exception", error |-> RawError("Exception", text)] :
            text \in {S500, S429 \o <<" ">> \o SQuota}}

\* entries of the log of outbound calls: page is the id of the page whose
\* text is asked for (0 for the other calls), answer is what came back
NoAnswer == [kind |-> "none"]
ListAnswer(outcome) == [kind |-> "list", status |-> outcome]
Start(call, page) == [call |-> call, event |-> "start", page |-> page, answer |-> NoAnswer]
End(call, page, answer) == [call |-> call, event |-> "end", page |-> page, answer |-> answer]

\* `not project_name` testing `is None`
FalsyIsNone(name) == name = None

\* line 146: `not project_name`
Falsy(name) == name = None \/ name[1] = << >>

\* lines 147-150
NotConfigured == Records(SNotConfigured, SNotConfigured)

\* the summary for no recent page with one sentinel in both fields
NoRecentRecordsTwice == Records(SNoRecentRecords, SNoRecentRecords)

\* lines 157-160
NoRecentRecords == Records(SNoRecentRecords, SNoDataToAnalyze)

\* lines 216-219
FetchError == Records(SFetchError, SFetchError)

\* line 374
AiUnavailable == Records(SAiUnavailable, SAiUnavailable)

\* the texts of recent_pages[:10] asked for all at once
gather_get_page_text(log, pages, index) ==
    IF index = 1
    THEN log \o [n \in 1..Len(Take(pages, MaxAnalyzedPages)) |->
                    Start("get_page_text", pages[n].id)]
    ELSE log

\* lines 164-166: the loop asks for one text and waits for it
await_get_page_text(log, pages, index) ==
    Append(log, Start("get_page_text", pages[index].id))

\* the test of the gateway alone
ai_unavailable_no_service(service, contents) == service = None

\* _analyze_with_ai, line 373: `not self.gemini_service or not page_contents`
ai_unavailable(service, contents) == service = None \/ Len(contents) = 0

\* lines 146-154: return at once without a project, else ask for the list
CallGetLearningRecords ==
    /\ rpc = "idle"
    /\ IF Falsy(project_name)
       THEN /\ learning_records' = Return(NotConfigured)
            /\ rpc' = "done"
            /\ outbound' = outbound
       ELSE /\ outbound' = Append(outbound, Start("get_pages_list", 0))
            /\ rpc' = "get_pages_list"
            /\ learning_records' = learning_records
    /\ UNCHANGED <<project_name, gemini_service, project, recent_pages, page_index,
                   page_contents, ai_result, notRecordsVars>>

\* lines 154-166: the list arrives; keep the recent pages, return if there
\* are none, else ask for the text of the first
PagesListResponds(outcome) ==
    /\ rpc = "get_pages_list"
    /\ LET recent == get_recent_pages(get_pages_list(outcome, project), RecentDays)
           ended == Append(outbound, End("get_pages_list", 0, ListAnswer(outcome)))
       IN /\ recent_pages' = recent
          /\ IF recent.kind = "raise"
             THEN /\ learning_records' = Return(FetchError)
                  /\ rpc' = "done"
                  /\ outbound' = ended
                  /\ page_index' = page_index
             ELSE IF Len(recent.value) = 0
             THEN /\ learning_records' = Return(NoRecentRecords)
                  /\ rpc' = "done"
                  /\ outbound' = ended
                  /\ page_index' = page_index
             ELSE /\ page_index' = 1
                  /\ outbound' = await_get_page_text(ended, recent.value, 1)
                  /\ rpc' = "get_page_text"
                  /\ learning_records' = learning_records
    /\ UNCHANGED <<project_name, gemini_service, project, page_contents, ai_result,
                   notRecordsVars>>

\* lines 164-178 and 373-415: a text arrives; keep it if it is not empty,
\* ask for the next one, and after the last one of recent_pages[:10] call
\* the gateway, or use the heuristics if there is no gateway or no text
PageTextResponds ==
    /\ rpc = "get_page_text"
    /\ LET page == recent_pages.value[page_index]
           content == get_page_text(page.text)
           collected ==
               IF content # << >>
               THEN Append(page_contents,
                           [title |-> page.title, content |-> content,
                            updated |-> updated_of(page)])
               ELSE page_contents
           ended == Append(outbound, End("get_page_text", page.id, page.text))
       IN /\ page_contents' = collected
          /\ IF page_index < Len(Take(recent_pages.value, MaxAnalyzedPages))
             THEN /\ page_index' = page_index + 1
                  /\ outbound' = await_get_page_text(ended, recent_pages.value, page_index + 1)
                  /\ rpc' = "get_page_text"
                  /\ UNCHANGED <<ai_result, learning_records>>
             ELSE IF ai_unavailable(gemini_service, collected)
             THEN /\ ai_result' = Return(AiUnavailable)
                  /\ learning_records' \in {Return(f) : f \in fallback_records(collected)}
                  /\ outbound' = ended
                  /\ rpc' = "done"
                  /\ page_index' = page_index
             ELSE /\ outbound' = Append(ended, Start("generate_text", 0))
                  /\ rpc' = "generate_text"
                  /\ UNCHANGED <<page_index, ai_result, learning_records>>
    /\ UNCHANGED <<project_name, gemini_service, project, recent_pages, notRecordsVars>>

\* lines 415-436 and 181-212: the gateway answers; parse its reply, and
\* return it unless it is one of the two results that call for the heuristics
GenerateTextResponds(r) ==
    /\ rpc = "generate_text"
    /\ LET analysed == _analyze_with_ai(generate_text_outcome(r))
       IN /\ ai_result' = Return(analysed)
          /\ IF needs_fallback(analysed)
             THEN learning_records' \in {Return(f) : f \in fallback_records(page_contents)}
             ELSE learning_records' = Return(analysed)
    /\ outbound' = Append(outbound, End("generate_text", 0, r))
    /\ rpc' = "done"
    /\ UNCHANGED <<project_name, gemini_service, project, recent_pages, page_index,
                   page_contents, notRecordsVars>>

ProjectNames == {None, Some(<< >>), Some(<<"p">>)}

InitRecords ==
    /\ GatewayIdle
    /\ RequestsIdle
    /\ ServicesIdle
    /\ CallsIdle
    /\ rpc = "idle"
    /\ project_name \in ProjectNames
    /\ gemini_service \in {None, Some("ready")}
    /\ project \in Projects
    /\ recent_pages = Pending
    /\ page_index = 0
    /\ page_contents = << >>
    /\ outbound = << >>
    /\ ai_result = Pending
    /\ learning_records = Pending

NextRecords ==
    \/ CallGetLearningRecords
    \/ \E outcome \in ListOutcomes : PagesListResponds(outcome)
    \/ PageTextResponds
    \/ \E r \in AiReplies : GenerateTextResponds(r)

SpecRecords == InitRecords /\ [][NextRecords]_vars

----------------------------------------------------------------------------
(* Properties of get_learning_records *)

\* the outbound calls started so far
Started(call) ==
    {k \in DOMAIN outbound : outbound[k].call = call /\ outbound[k].event = "start"}

\* the outbound calls answered so far
Ended(call) ==
    {k \in DOMAIN outbound : outbound[k].call = call /\ outbound[k].event = "end"}

EmptyProjectName == project_name = None \/ project_name = Some(<< >>)

\* C11: a call with an empty or unset project identifier returns the
\* "project not configured" sentinel in both fields and makes no outbound
\* call: no fetch from the notes service, no call of the gateway.
C11_NoProjectNoOutboundCall ==
    EmptyProjectName =>
        /\ outbound = << >>
        /\ rpc \in {"idle", "done"}
        /\ rpc = "done" =>
              /\ learning_records.kind = "return"
              /\ learning_records.value.recent_progress = SNotConfigured
              /\ learning_records.value.weak_areas = SNotConfigured

\* C11 happens: the project identifier is the empty string, the notes
\* service holds recent pages and the gateway is there, and the call is over
C11_Witness ==
    /\ rpc = "done"
    /\ project_name = Some(<< >>)
    /\ gemini_service # None
    /\ Len(project) > 0
    /\ learning_records.kind = "return"

\* the list fetch was answered and get_recent_pages gave no page
ZeroRecentPages ==
    /\ ~EmptyProjectName
    /\ rpc = "done"
    /\ recent_pages.kind = "return"
    /\ Len(recent_pages.value) = 0

\* C12 as stated: with a project identifier and zero recent pages, both
\* fields are the "no recent records found" sentinel.
C12_BothFieldsNoRecentRecords ==
    ZeroRecentPages =>
        /\ learning_records.kind = "return"
        /\ learning_records.value.recent_progress = SNoRecentRecords
        /\ learning_records.value.weak_areas = SNoRecentRecords

\* C12 amended: with a project identifier and zero recent pages,
\* recent_progress is the "no recent records found" sentinel and weak_areas
\* is the "no data to analyse" sentinel.
C12_NoRecentRecordsAndNoData ==
    ZeroRecentPages =>
        /\ learning_records.kind = "return"
        /\ learning_records.value.recent_progress = SNoRecentRecords
        /\ learning_records.value.weak_areas = SNoDataToAnalyze

\* C12 happens: the list came with status 200, held pages, and none of
\* them was updated inside the window
C12_Witness ==
    /\ ZeroRecentPages
    /\ Len(project) > 0
    /\ \E k \in Ended("get_pages_list") : outbound[k].answer.status = "200"

IsString(x) == DOMAIN x = 1..Len(x) /\ \A i \in DOMAIN x : x[i] \in STRING

\* the fetches that failed: a status other than 200 or a transport error
FailedListFetch ==
    \E k \in Ended("get_pages_list") : outbound[k].answer.status # "200"

FailedTextFetches ==
    {k \in Ended("get_page_text") :
        \/ outbound[k].answer.kind = "exception"
        \/ outbound[k].answer.kind = "response" /\ outbound[k].answer.status_code # 200}

AnalysisFailed ==
    \/ rpc = "done" /\ ai_result # Pending /\ gemini_service = None
    \/ \E k \in Ended("generate_text") :
          generate_text_outcome(outbound[k].answer).kind = "raise"

\* the reply of the remote model holds neither label
ReplyWithoutLabels ==
    \E k \in Ended("generate_text") :
        /\ outbound[k].answer.kind = "response"
        /\ outbound[k].answer.text # << >>
        /\ ~In(SProgressLabel, outbound[k].answer.text)
        /\ ~In(SWeakLabel, outbound[k].answer.text)

\* C14: when the analysis by the gateway fails (no gateway, or the call
\* raises) or its reply has no line with the progress or weak-area label,
\* get_learning_records returns what the keyword heuristics give for the
\* pages fetched, not a placeholder of the gateway path.
C14_FallbackWhenAnalysisUnusable ==
    (rpc = "done" /\ (AnalysisFailed \/ ReplyWithoutLabels)) =>
        /\ learning_records.kind = "return"
        /\ learning_records.value \in fallback_records(page_contents)

\* the positions in the list of the pages whose text was asked for
FetchedPages == {outbound[k].page : k \in Started("get_page_text")}

\* a page of the project updated inside the 90-day window
InWindow(i) ==
    /\ project[i].updated.type = "number"
    /\ project[i].updated.value > Now - (RecentDays * 24 * 60 * 60)

\* C15: in one call the text is fetched of at most 10 pages, each at most
\* once, each updated inside the 90-day window, and no page left out that
\* was updated inside the window is newer than a fetched one.
C15_TenMostRecentPages ==
    /\ Cardinality(Started("get_page_text")) <= MaxAnalyzedPages
    /\ Cardinality(FetchedPages) = Cardinality(Started("get_page_text"))
    /\ \A f \in FetchedPages : f \in DOMAIN project /\ InWindow(f)
    /\ \A f \in FetchedPages : \A u \in DOMAIN project \ FetchedPages :
          InWindow(u) => project[u].updated.value <= project[f].updated.value

\* C15 happens: the list holds more than 10 pages of the window, the
\* oldest of them first; 10 texts were fetched and the first page was not
C15_Witness ==
    /\ rpc = "done"
    /\ Cardinality(FetchedPages) = MaxAnalyzedPages
    /\ \E u \in DOMAIN project \ FetchedPages :
          /\ InWindow(u)
          /\ \A f \in FetchedPages : u < f /\ project[u].updated.value < project[f].updated.value

CallRank(call) ==
    IF call = "get_pages_list" THEN 1 ELSE IF call = "get_page_text" THEN 2 ELSE 3

\* C16: the outbound calls of one get_learning_records call are
\* sequential: every call is answered before the next one starts, the list
\* fetch comes first, then the text fetches one at a time from the newest
\* page to the oldest, then the call of the gateway if there is one.
C16_OutboundCallsSequential ==
    /\ \A k \in DOMAIN outbound :
          IF k % 2 = 1
          THEN outbound[k].event = "start"
          ELSE /\ outbound[k].event = "end"
               /\ outbound[k].call = outbound[k - 1].call
               /\ outbound[k].page = outbound[k - 1].page
    /\ \A i, j \in DOMAIN outbound :
          i < j => CallRank(outbound[i].call) <= CallRank(outbound[j].call)
    /\ Cardinality(Started("get_pages_list")) <= 1
    /\ Cardinality(Started("generate_text")) <= 1
    /\ \A i, j \in Started("get_page_text") :
          i < j => updated_of(project[outbound[i].page]) >= updated_of(project[outbound[j].page])

\* C16 happens: a list fetch, the text fetches of two pages updated at
\* different times and a gateway call, all answered
C16_Witness ==
    /\ rpc = "done"
    /\ Cardinality(Ended("generate_text")) = 1
    /\ \E i, j \in Ended("get_page_text") :
          updated_of(project[outbound[i].page]) > updated_of(project[outbound[j].page])

\* the texts that arrived with a body
BodiesFetched ==
    {k \in Ended("get_page_text") :
        /\ outbound[k].answer.kind = "response"
        /\ outbound[k].answer.status_code = 200
        /\ outbound[k].answer.text # << >>}

----------------------------------------------------------------------------
(* app/dependencies.py and app/core/security.py: the guards of an endpoint *)

SBearer == <<"B", "e", "a", "r", "e", "r", " ">>

\* rate_limit, line 41: the length of the window in seconds
WindowSeconds == 60

HTTPException(status_code) == [cls |-> "HTTPException", status_code |-> status_code]

\* get_api_key, lines 18-32; authorization is the Optional header
get_api_key(authorization, secret) ==
    IF authorization = None \/ authorization[1] = << >>
    THEN Raise(HTTPException(401))
    ELSE IF ~startswith(authorization[1], SBearer)
    THEN Raise(HTTPException(401))
    ELSE LET api_key == remove_all(authorization[1], SBearer)
         IN IF api_key # secret
            THEN Raise(HTTPException(401))
            ELSE Return(api_key)

\* verify_api_key, lines 12-40; credentials is the Optional token that
\* HTTPBearer took from the header
verify_api_key(credentials, secret) ==
    IF credentials = None
    THEN Raise(HTTPException(401))
    ELSE IF credentials[1] # secret
    THEN Raise(HTTPException(401))
    ELSE Return(credentials[1])

Guards == {"get_api_key", "verify_api_key"}

\* the guard an endpoint declares, run on what the request presents
guard_outcome(guard, presented, secret) ==
    IF guard = "get_api_key"
    THEN get_api_key(presented, secret)
    ELSE verify_api_key(presented, secret)

\* rate_limit, line 37
client_ip_of(client) == IF client = None THEN "unknown" ELSE client[1]

Clients == {Some("10.0.0.1"), None}

\* the cleaning keeping a timestamp as old as the cutoff
fresh_or_equal(timestamps, cutoff) ==
    SelectSeq(timestamps, LAMBDA timestamp : timestamp >= cutoff)

\* rate_limit, lines 42-45: the timestamps newer than the cutoff
fresh(timestamps, cutoff) ==
    SelectSeq(timestamps, LAMBDA timestamp : timestamp > cutoff)

\* the list of the client replaced by the new timestamp alone
record_request_overwrite(timestamps, current_time) == <<current_time>>

\* rate_limit, line 55
record_request(timestamps, current_time) == Append(timestamps, current_time)

\* Authorization headers
HeaderOfSecret == SBearer \o <<"s">>
Headers ==
    { None, Some(<< >>), Some(HeaderOfSecret), Some(SBearer \o <<"x">>),
      Some(SBearer), Some(<<"s">>), Some(<<"B", "a", "s", "i", "c", " ", "s">>),
      Some(<<"b", "e", "a", "r", "e", "r", " ", "s">>),
      Some(SBearer \o SBearer \o <<"s">>) }

\* what HTTPBearer hands to verify_api_key
Credentials == {None, Some(<<"s">>), Some(<<"x">>), Some(<< >>), Some(SBearer \o <<"s">>)}

Presented(guard) == IF guard = "get_api_key" THEN Headers ELSE Credentials

SetRequest(i, phase, status) ==
    [requests EXCEPT ![i].phase = phase, ![i].status = status]

\* a request arrives at an endpoint that declares the guard and rate_limit
Arrive(client, guard, presented) ==
    /\ Len(requests) < MaxRequests
    /\ Cardinality({i \in DOMAIN requests : requests[i].phase # "responded"}) < MaxInFlight
    /\ requests' = Append(requests,
          [client |-> client, guard |-> guard, presented |-> presented,
           phase |-> "received", status |-> None])
    /\ UNCHANGED <<clock, api_secret_key, rate_limit_per_minute, rate_limit_storage,
                   decisions, handled, notRequestVars>>

\* the guard runs: 401 ends the request
Authenticate(i) ==
    /\ requests[i].phase = "received"
    /\ LET outcome == guard_outcome(requests[i].guard, requests[i].presented, api_secret_key)
       IN IF outcome.kind = "raise"
          THEN requests' = SetRequest(i, "responded", Some(outcome.error.status_code))
          ELSE requests' = SetRequest(i, "authenticated", None)
    /\ UNCHANGED <<clock, api_secret_key, rate_limit_per_minute, rate_limit_storage,
                   decisions, handled, notRequestVars>>

\* rate_limit appending the timestamp of a request before it refuses it
RateLimitRecordsRejected(i) ==
    /\ requests[i].phase = "authenticated"
    /\ LET client_ip == client_ip_of(requests[i].client)
           current_time == clock
           cutoff_time_ == current_time - WindowSeconds
           kept == fresh(rate_limit_storage[client_ip], cutoff_time_)
       IN /\ rate_limit_storage' =
                [rate_limit_storage EXCEPT ![client_ip] = record_request(kept, current_time)]
          /\ IF Len(kept) >= rate_limit_per_minute
             THEN /\ requests' = SetRequest(i, "responded", Some(429))
                  /\ decisions' = Append(decisions,
                        [request |-> i, client_ip |-> client_ip, time |-> current_time,
                         accepted |-> FALSE])
             ELSE /\ requests' = SetRequest(i, "admitted", None)
                  /\ decisions' = Append(decisions,
                        [request |-> i, client_ip |-> client_ip, time |-> current_time,
                         accepted |-> TRUE])
    /\ UNCHANGED <<clock, api_secret_key, rate_limit_per_minute, handled, notRequestVars>>

\* rate_limit, lines 35-55, which has no await: one step of the event loop
RateLimit(i) ==
    /\ requests[i].phase = "authenticated"
    /\ LET client_ip == client_ip_of(requests[i].client)
           current_time == clock
           cutoff_time_ == current_time - WindowSeconds
           kept == fresh(rate_limit_storage[client_ip], cutoff_time_)
       IN IF Len(kept) >= rate_limit_per_minute
          THEN /\ rate_limit_storage' = [rate_limit_storage EXCEPT ![client_ip] = kept]
               /\ requests' = SetRequest(i, "responded", Some(429))
               /\ decisions' = Append(decisions,
                     [request |-> i, client_ip |-> client_ip, time |-> current_time,
                      accepted |-> FALSE])
          ELSE /\ rate_limit_storage' =
                     [rate_limit_storage EXCEPT ![client_ip] = record_request(kept, current_time)]
               /\ requests' = SetRequest(i, "admitted", None)
               /\ decisions' = Append(decisions,
                     [request |-> i, client_ip |-> client_ip, time |-> current_time,
                      accepted |-> TRUE])
    /\ UNCHANGED <<clock, api_secret_key, rate_limit_per_minute, handled, notRequestVars>>

\* the handler of the endpoint runs and answers
Handle(i) ==
    /\ requests[i].phase = "admitted"
    /\ handled' = Append(handled, i)
    /\ requests' = SetRequest(i, "responded", Some(200))
    /\ UNCHANGED <<clock, api_secret_key, rate_limit_per_minute, rate_limit_storage,
                   decisions, notRequestVars>>

\* time passes
ClockSteps == {59, 60}

Tick(seconds) ==
    /\ clock + seconds <= MaxClock
    /\ clock' = clock + seconds
    /\ UNCHANGED <<api_secret_key, rate_limit_per_minute, rate_limit_storage, requests,
                   decisions, handled, notRequestVars>>

\* the rate limiter under requests that carry the secret
InitLimiter ==
    /\ GatewayIdle
    /\ RecordsIdle
    /\ ServicesIdle
    /\ CallsIdle
    /\ clock = 0
    /\ api_secret_key = <<"s">>
    /\ rate_limit_per_minute \in 0..MaxLimit
    /\ rate_limit_storage = [client_ip \in {client_ip_of(c) : c \in Clients} |-> << >>]
    /\ requests = << >>
    /\ decisions = << >>
    /\ handled = << >>

NextLimiter ==
    \/ \E client \in Clients : Arrive(client, "get_api_key", Some(HeaderOfSecret))
    \/ \E i \in DOMAIN requests : Authenticate(i)
    \/ \E i \in DOMAIN requests : RateLimit(i)
    \/ \E i \in DOMAIN requests : Handle(i)
    \/ \E seconds \in ClockSteps : Tick(seconds)

SpecLimiter == InitLimiter /\ [][NextLimiter]_vars

\* the guards under every header and every credential
Secrets == {<<"s">>, << >>}

InitGuards ==
    /\ GatewayIdle
    /\ RecordsIdle
    /\ ServicesIdle
    /\ CallsIdle
    /\ clock = 0
    /\ api_secret_key \in Secrets
    /\ rate_limit_per_minute = 1
    /\ rate_limit_storage = [client_ip \in {client_ip_of(c) : c \in Clients} |-> << >>]
    /\ requests = << >>
    /\ decisions = << >>
    /\ handled = << >>

NextGuards ==
    \/ \E guard \in Guards : \E presented \in Presented(guard) :
          Arrive(Some("10.0.0.1"), guard, presented)
    \/ \E i \in DOMAIN requests : Authenticate(i)
    \/ \E i \in DOMAIN requests : RateLimit(i)
    \/ \E i \in DOMAIN requests : Handle(i)

SpecGuards == InitGuards /\ [][NextGuards]_vars

----------------------------------------------------------------------------
(* Properties of the rate limiter and of the guards *)

\* the runs of rate_limit before run k that accepted a request of the same
\* client less than 60 seconds before run k
PriorAccepted(k) ==
    {j \in 1..(k - 1) :
        /\ decisions[j].client_ip = decisions[k].client_ip
        /\ decisions[j].accepted
        /\ decisions[j].time > decisions[k].time - WindowSeconds}

\* C17: for one client address and limit L, rate_limit accepts a request
\* while fewer than L requests of the client were accepted in the 60
\* seconds before it, and answers 429 to the request that comes when L were;
\* so the first L of a window pass, the next one gets 429, and a request
\* that comes 60 seconds or more after the last accepted one passes again.
C17_LimitPerWindow ==
    \A k \in DOMAIN decisions :
        IF Cardinality(PriorAccepted(k)) < rate_limit_per_minute
        THEN /\ decisions[k].accepted
             /\ requests[decisions[k].request].status # Some(429)
        ELSE /\ ~decisions[k].accepted
             /\ requests[decisions[k].request].status = Some(429)

\* C17 happens: a client had a request accepted, the next one refused, and
\* the one that came exactly 60 seconds after the accepted one accepted
C17_Witness ==
    \E i, j, k \in DOMAIN decisions :
        /\ i < j /\ j < k
        /\ decisions[i].client_ip = decisions[j].client_ip
        /\ decisions[j].client_ip = decisions[k].client_ip
        /\ decisions[i].accepted
        /\ ~decisions[j].accepted
        /\ decisions[k].accepted
        /\ decisions[k].time = decisions[i].time + WindowSeconds

ClientIps == {client_ip_of(c) : c \in Clients}

\* the accepted requests of a client with a timestamp in the 60 seconds
\* that end at time t
AcceptedInWindow(client_ip, t) ==
    {j \in DOMAIN decisions :
        /\ decisions[j].client_ip = client_ip
        /\ decisions[j].accepted
        /\ decisions[j].time > t - WindowSeconds
        /\ decisions[j].time <= t}

\* the runs of rate_limit for a client
RunsFor(client_ip) == {j \in DOMAIN decisions : decisions[j].client_ip = client_ip}

\* C18: however the concurrent requests interleave, no update of the list
\* of a client is lost: the list holds every timestamp accepted in the 60
\* seconds before the last run of rate_limit for the client, and in no 60
\* seconds does a client have more accepted requests than the limit (a
\* window holds the most timestamps when it ends at one of them).
C18_NoLostUpdate ==
    \A client_ip \in ClientIps :
        /\ \A j \in RunsFor(client_ip) :
              Cardinality(AcceptedInWindow(client_ip, decisions[j].time))
                  <= rate_limit_per_minute
        /\ RunsFor(client_ip) # {} =>
              LET last == decisions[Max(RunsFor(client_ip))].time
              IN /\ Len(rate_limit_storage[client_ip])
                       = Cardinality(AcceptedInWindow(client_ip, last))
                 /\ \A j \in AcceptedInWindow(client_ip, last) :
                       \E n \in DOMAIN rate_limit_storage[client_ip] :
                           rate_limit_storage[client_ip][n] = decisions[j].time

\* C18 happens: two requests of a client were in flight together,
\* rate_limit ran for the later one first, and the limit was reached
C18_Witness ==
    \E i, j \in DOMAIN decisions :
        /\ i < j
        /\ decisions[i].request > decisions[j].request
        /\ decisions[i].client_ip = decisions[j].client_ip
        /\ decisions[i].accepted
        /\ ~decisions[j].accepted

\* a request that rate_limit answers with 429 in this step
Rejected(i) ==
    /\ requests[i].phase = "authenticated"
    /\ requests'[i].status = Some(429)

\* C29: a request that rate_limit refuses with 429 is not recorded: the
\* step leaves of the client's timestamps those less than 60 seconds old,
\* in their order, adds none, and changes the timestamps of no other
\* client address.
C29_RejectionNotRecorded ==
    [][\A i \in DOMAIN requests :
          Rejected(i) =>
              LET client_ip == client_ip_of(requests[i].client)
              IN /\ rate_limit_storage'[client_ip] =
                       SelectSeq(rate_limit_storage[client_ip],
                                 LAMBDA timestamp : timestamp > clock - WindowSeconds)
                 /\ \A other \in ClientIps \ {client_ip} :
                       rate_limit_storage'[other] = rate_limit_storage[other]]_vars

\* C29 happens: a client had a request accepted, the next one refused, and
\* a third accepted 60 seconds or more after the first and less than 60
\* seconds after the refused one
C29_Witness ==
    \E i, j, k \in DOMAIN decisions :
        /\ i < j /\ j < k
        /\ decisions[i].client_ip = decisions[j].client_ip
        /\ decisions[j].client_ip = decisions[k].client_ip
        /\ decisions[i].accepted
        /\ ~decisions[j].accepted
        /\ decisions[k].accepted
        /\ decisions[k].time >= decisions[i].time + WindowSeconds
        /\ decisions[k].time < decisions[j].time + WindowSeconds

\* the request presents no bearer token equal to the secret: no header, a
\* header not of the form "Bearer <token>", or another token
TokenMismatch(r) ==
    IF r.guard = "get_api_key"
    THEN \/ r.presented = None
         \/ ~StartsAt(r.presented[1], SBearer, 1)
         \/ SubSeq(r.presented[1], Len(SBearer) + 1, Len(r.presented[1])) # api_secret_key
    ELSE \/ r.presented = None
         \/ r.presented[1] # api_secret_key

\* C19: a request to a guarded endpoint whose bearer token is not the
\* configured secret, or whose header is absent or not of Bearer form, is
\* answered 401 and neither rate_limit nor the handler runs for it.
C19_MismatchIs401 ==
    \A i \in DOMAIN requests :
        TokenMismatch(requests[i]) =>
            /\ requests[i].phase \in {"received", "responded"}
            /\ requests[i].phase = "responded" => requests[i].status = Some(401)
            /\ \A k \in DOMAIN handled : handled[k] # i

----------------------------------------------------------------------------
(* The service handles: get_gemini_service, get_scrapbox_service and the
   endpoints that construct a ScrapboxService themselves *)

\* a constructor run; the instance it makes is named by its place in the log
Construction(cls, ok) == [cls |-> cls, ok |-> ok]

\* a handle a caller got: the instance, or 0 when the constructor raised
Use(caller, cls, via, instance) ==
    [caller |-> caller, cls |-> cls, via |-> via, instance |-> instance]

CallsStarted ==
    Len(uses) + Cardinality({c \in Callers : caller_pc[c] # "idle"})

\* GeminiService.__init__, lines 23-40: raises without an API key
GeminiConstructs == gemini_api_key # << >>

\* ScrapboxService.__init__, lines 21-40: makes a GeminiService of its own
\* and keeps None when that raises; the new log and the new instance
ScrapboxServiceInit(log) ==
    Append(Append(log, Construction("GeminiService", GeminiConstructs)),
           Construction("ScrapboxService", TRUE))

\* get_gemini_service, line 403: the test of the global; the dependency
\* get_gemini_service_dep is a plain function, so FastAPI runs it in a
\* worker thread and another thread may run between the test and line 406
GetGeminiServiceCheck(c) ==
    /\ caller_pc[c] = "idle"
    /\ CallsStarted < MaxCalls
    /\ IF _gemini_service # None
       THEN /\ uses' = Append(uses, Use(c, "GeminiService", "get_gemini_service",
                                        _gemini_service[1]))
            /\ caller_pc' = caller_pc
       ELSE /\ caller_pc' = [caller_pc EXCEPT ![c] = "constructing"]
            /\ uses' = uses
    /\ UNCHANGED <<gemini_api_key, _gemini_service, _scrapbox_service, constructions,
                   notServiceVars>>

\* get_gemini_service, lines 404-408: construct, set the global, return
GetGeminiServiceConstruct(c) ==
    /\ caller_pc[c] = "constructing"
    /\ constructions' = Append(constructions, Construction("GeminiService", GeminiConstructs))
    /\ IF GeminiConstructs
       THEN /\ _gemini_service' = Some(Len(constructions) + 1)
            /\ uses' = Append(uses, Use(c, "GeminiService", "get_gemini_service",
                                        Len(constructions) + 1))
       ELSE /\ _gemini_service' = _gemini_service
            /\ uses' = Append(uses, Use(c, "GeminiService", "get_gemini_service", 0))
    /\ caller_pc' = [caller_pc EXCEPT ![c] = "idle"]
    /\ UNCHANGED <<gemini_api_key, _scrapbox_service, notServiceVars>>

\* endpoints/ai.py, lines 359 and 402: the handler makes a ScrapboxService
ScrapboxEndpoint(c) ==
    /\ caller_pc[c] = "idle"
    /\ CallsStarted < MaxCalls
    /\ constructions' = ScrapboxServiceInit(constructions)
    /\ uses' = Append(uses, Use(c, "ScrapboxService", "ScrapboxService()",
                                Len(constructions) + 2))
    /\ UNCHANGED <<gemini_api_key, _gemini_service, _scrapbox_service, caller_pc,
                   notServiceVars>>

\* get_scrapbox_service, lines 443-453, called on the event loop
GetScrapboxService(c) ==
    /\ caller_pc[c] = "idle"
    /\ CallsStarted < MaxCalls
    /\ IF _scrapbox_service # None
       THEN /\ uses' = Append(uses, Use(c, "ScrapboxService", "get_scrapbox_service",
                                        _scrapbox_service[1]))
            /\ UNCHANGED <<_scrapbox_service, constructions>>
       ELSE /\ constructions' = ScrapboxServiceInit(constructions)
            /\ _scrapbox_service' = Some(Len(constructions) + 2)
            /\ uses' = Append(uses, Use(c, "ScrapboxService", "get_scrapbox_service",
                                        Len(constructions) + 2))
    /\ UNCHANGED <<gemini_api_key, _gemini_service, caller_pc, notServiceVars>>

InitServices ==
    /\ GatewayIdle
    /\ RecordsIdle
    /\ RequestsIdle
    /\ CallsIdle
    /\ gemini_api_key \in {<<"k">>, << >>}
    /\ _gemini_service = None
    /\ _scrapbox_service = None
    /\ caller_pc = [c \in Callers |-> "idle"]
    /\ constructions = << >>
    /\ uses = << >>

NextServices ==
    \/ \E c \in Callers : GetGeminiServiceCheck(c)
    \/ \E c \in Callers : GetGeminiServiceConstruct(c)
    \/ \E c \in Callers : ScrapboxEndpoint(c)
    \/ \E c \in Callers : GetScrapboxService(c)

SpecServices == InitServices /\ [][NextServices]_vars

\* the instances of a class that were constructed
Instances(cls) ==
    {k \in DOMAIN constructions : constructions[k].cls = cls /\ constructions[k].ok}

\* C20: in one process the gateway handle and the notes client handle are
\* each constructed at most once, and every use gets that one instance.
C20_HandlesConstructedOnce ==
    /\ Cardinality(Instances("GeminiService")) <= 1
    /\ Cardinality(Instances("ScrapboxService")) <= 1
    /\ \A i, j \in DOMAIN uses :
          (uses[i].cls = uses[j].cls /\ uses[i].instance # 0 /\ uses[j].instance # 0)
              => uses[i].instance = uses[j].instance

----------------------------------------------------------------------------
(* app/core/prompts.py: the templates as str.format reads them.  A        *)
(* template is a sequence of runs of literal text and replacement fields. *)
(* The system prompts are f-strings, so a doubled brace of the source is  *)
(* a single brace of the stored string and opens a replacement field.     *)

Text(name) == [text |-> name]
Field(name) == [field |-> name]

IsField(token) == "field" \in DOMAIN token

BASE_SYSTEM_PROMPT == <<Text("BASE_SYSTEM_PROMPT")>>

LEARNING_PLAN_PROMPTS ==
    [system |-> BASE_SYSTEM_PROMPT \o <<Text("learning_plan.format")>>,
     user_template |->
        <<Text("learning_plan.conditions"),
          Text("goal: "), Field("goal"),
          Text("time: "), Field("time_available"), Text("min"),
          Text("level: "), Field("current_level"),
          Text("focus: "), Field("focus_areas"),
          Text("difficulty: "), Field("difficulty"),
          Text("learning_plan.request")>>]

\* the field names of the system prompt: U+6642 U+9593, and so on
TODO_PROMPTS ==
    [system |-> BASE_SYSTEM_PROMPT \o
        <<Text("todo.format"),
          Text("1. time: "), Field("U+6642U+9593"), Text("min"),
          Text("content: "), Field("U+5177U+4F53U+7684U+306AU+4F5CU+696DU+5185U+5BB9"),
          Text("2. time: "), Field("U+6642U+9593"), Text("min"),
          Text("content: "), Field("U+5177U+4F53U+7684U+306AU+4F5CU+696DU+5185U+5BB9"),
          Text("note: "),
          Field("U+5FC5U+8981U+306BU+5FDCU+3058U+3066U+8FFDU+52A0U+60C5U+5831"),
          Text("todo.request")>>,
     user_template |->
        <<Text("todo.conditions"),
          Text("time: "), Field("time_available"), Text("min"),
          Text("progress: "), Field("recent_progress"),
          Text("weak: "), Field("weak_areas"),
          Text("goal: "), Field("daily_goal"),
          Text("goal: "), Field("daily_goal"),
          Text("todo.tasks")>>]

ANALYSIS_PROMPTS ==
    [system |-> BASE_SYSTEM_PROMPT \o <<Text("analysis.format")>>,
     user_template |->
        <<Text("analysis.conditions"),
          Text("period: "), Field("period"),
          Text("records: "), Field("learning_records"),
          Text("goals: "), Field("goals"),
          Text("rate: "), Field("progress_rate"),
          Text("analysis.request")>>]

ADVICE_PROMPTS ==
    [system |-> BASE_SYSTEM_PROMPT \o <<Text("advice.format")>>,
     user_template |->
        <<Text("advice.conditions"),
          Text("issues: "), Field("current_issues"),
          Text("status: "), Field("learning_status"),
          Text("concerns: "), Field("concerns"),
          Text("goal: "), Field("target_goal"),
          Text("advice.request")>>]

GOAL_PROMPTS ==
    [system |-> BASE_SYSTEM_PROMPT \o <<Text("goal.format")>>,
     user_template |->
        <<Text("goal.conditions"),
          Text("outcome: "), Field("desired_outcome"),
          Text("timeline: "), Field("timeline"),
          Text("level: "), Field("current_level"),
          Text("resources: "), Field("available_resources"),
          Text("constraints: "), Field("constraints"),
          Text("goal.request")>>]

prompt_mapping ==
    [learning_plan |-> LEARNING_PLAN_PROMPTS,
     todo |-> TODO_PROMPTS,
     analysis |-> ANALYSIS_PROMPTS,
     advice |-> ADVICE_PROMPTS,
     goal |-> GOAL_PROMPTS]

ValueError(text) == RawError("ValueError", text)
KeyError(key) == RawError("KeyError", <<key>>)

UnknownCategory(category) == ValueError(<<"Unknown prompt category: ", category>>)

UnknownType(category, prompt_type) ==
    ValueError(<<"Unknown prompt type '", prompt_type, "' for category '", category, "'">>)

\* get_prompt testing the prompt type before the category
get_prompt_type_first(category, prompt_type) ==
    IF prompt_type \notin {"system", "user_template"}
    THEN Raise(UnknownType(category, prompt_type))
    ELSE IF category \notin DOMAIN prompt_mapping
         THEN Raise(UnknownCategory(category))
         ELSE Return(prompt_mapping[category][prompt_type])

get_prompt(category, prompt_type) ==
    IF category \notin DOMAIN prompt_mapping
    THEN Raise(UnknownCategory(category))
    ELSE LET prompts == prompt_mapping[category]
         IN IF prompt_type \notin DOMAIN prompts
            THEN Raise(UnknownType(category, prompt_type))
            ELSE Return(prompts[prompt_type])

\* the arguments get_prompt is called with
CategoryArgs == Categories \cup {"quick", ""}
PromptTypeArgs == {"system", "user_template", "motivation"}

GetPromptCalls ==
    {[function |-> "get_prompt", category |-> c, prompt_type |-> t] :
        c \in CategoryArgs, t \in PromptTypeArgs}

Called(function) == fn_call.function = function /\ fn_outcome # Pending

CallGetPrompt ==
    /\ fn_call.function = "get_prompt"
    /\ fn_outcome = Pending
    /\ fn_outcome' = get_prompt(fn_call.category, fn_call.prompt_type)
    /\ UNCHANGED <<fn_call, notCallVars>>

\* C21: get_prompt returns the registered template exactly for a category
\* of the five and a prompt type of the two; an unknown category raises the
\* unknown-category error whatever the prompt type, and a known category
\* with an unknown prompt type raises the unknown-type error.
C21_GetPromptTotal ==
    Called("get_prompt") =>
        LET c == fn_call.category
            t == fn_call.prompt_type
        IN /\ (fn_outcome.kind = "return") <=>
                  (c \in Categories /\ t \in {"system", "user_template"})
           /\ fn_outcome.kind = "return" => fn_outcome.value = prompt_mapping[c][t]
           /\ c \notin Categories => fn_outcome = Raise(UnknownCategory(c))
           /\ (c \in Categories /\ t \notin {"system", "user_template"}) =>
                  fn_outcome = Raise(UnknownType(c, t))

\* an unknown category with an unknown prompt type has been refused
C21_Witness ==
    /\ Called("get_prompt")
    /\ fn_call.category \notin Categories
    /\ fn_call.prompt_type \notin {"system", "user_template"}
    /\ fn_outcome = Raise(UnknownCategory(fn_call.category))

----------------------------------------------------------------------------
(* str.format and the five task methods of GeminiService *)

\* the names of the replacement fields of a template
Required(template) ==
    {template[k].field : k \in {j \in DOMAIN template : IsField(template[j])}}

\* str.format rendering a missing field as the empty string
format_blank_missing(template, fields) ==
    Return(Flatten([k \in DOMAIN template |->
        IF IsField(template[k])
        THEN IF template[k].field \in DOMAIN fields
             THEN fields[template[k].field] ELSE << >>
        ELSE <<template[k].text>>]))

\* template.format(**fields): the fields are looked up from left to right
format(template, fields) ==
    LET missing == {k \in DOMAIN template :
                      IsField(template[k]) /\ template[k].field \notin DOMAIN fields}
    IN IF missing # {}
       THEN Raise(KeyError(template[Min(missing)].field))
       ELSE Return(Flatten([k \in DOMAIN template |->
                IF IsField(template[k])
                THEN fields[template[k].field]
                ELSE <<template[k].text>>]))

DigitChars == <<"0", "1", "2", "3", "4", "5", "6", "7", "8", "9">>

\* str(n) of an int n >= 0
RECURSIVE format_int(_)
format_int(n) ==
    IF n < 10 THEN <<DigitChars[n + 1]>>
    ELSE format_int(n \div 10) \o <<DigitChars[(n % 10) + 1]>>

\* str(x) of a float x >= 0 with no fractional part
format_float(n) == format_int(n) \o <<".", "0">>

SNotSpecified == <<"U+6307", "U+5B9A", "U+306A", "U+3057">>
SNothingSpecial == <<"U+7279", "U+306B", "U+306A", "U+3057">>
SNoData == <<"U+30C7", "U+30FC", "U+30BF", "U+306A", "U+3057">>
SEffectiveLearning == <<"U+52B9", "U+679C", "U+7684", "U+306A", "U+5B66", "U+7FD2">>
SBetterLearning == <<"U+5B66", "U+7FD2", "U+306E", "U+6539", "U+5584">>

\* `value or default`, `", ".join(values) if values else default`
Or(value, default) == IF Falsy(value) THEN default ELSE value[1]
JoinOr(values, default) == IF Falsy(values) THEN default ELSE join(<<",", " ">>, values[1])

\* lines 200-206: the user prompt of generate_learning_plan
learning_plan_user_prompt(a) ==
    format(get_prompt("learning_plan", "user_template").value,
           [goal |-> a.goal,
            time_available |-> format_int(a.time_available),
            current_level |-> a.current_level,
            focus_areas |-> JoinOr(a.focus_areas, SNotSpecified),
            difficulty |-> a.difficulty])

\* lines 229-234: the user prompt of generate_todo_list
todo_user_prompt(a) ==
    format(get_prompt("todo", "user_template").value,
           [time_available |-> format_int(a.time_available),
            recent_progress |-> Or(a.recent_progress, SNoData),
            weak_areas |-> JoinOr(a.weak_areas, SNothingSpecial),
            daily_goal |-> Or(a.daily_goal, SEffectiveLearning)])

\* lines 257-262: the user prompt of analyze_progress
analysis_user_prompt(a) ==
    format(get_prompt("analysis", "user_template").value,
           [period |-> a.period,
            learning_records |-> a.learning_records,
            goals |-> a.goals,
            progress_rate |-> format_float(a.progress_rate)])

\* lines 285-290: the user prompt of give_advice
advice_user_prompt(a) ==
    format(get_prompt("advice", "user_template").value,
           [current_issues |-> a.current_issues,
            learning_status |-> a.learning_status,
            concerns |-> Or(a.concerns, SNothingSpecial),
            target_goal |-> Or(a.target_goal, SBetterLearning)])

\* lines 316-322: the user prompt of set_goals
goal_user_prompt(a) ==
    format(get_prompt("goal", "user_template").value,
           [desired_outcome |-> a.desired_outcome,
            timeline |-> a.timeline,
            current_level |-> a.current_level,
            available_resources |-> a.available_resources,
            constraints |-> Or(a.constraints, SNothingSpecial)])

TaskMethods ==
    {"generate_learning_plan", "generate_todo_list", "analyze_progress",
     "give_advice", "set_goals"}

user_prompt_of(method, a) ==
    CASE method = "generate_learning_plan" -> learning_plan_user_prompt(a)
      [] method = "generate_todo_list" -> todo_user_prompt(a)
      [] method = "analyze_progress" -> analysis_user_prompt(a)
      [] method = "give_advice" -> advice_user_prompt(a)
      [] method = "set_goals" -> goal_user_prompt(a)

\* argument values: a str, an Optional[str], an Optional[List[str]]
StrArgs == {<< >>, <<"a">>}
OptionalStrArgs == {None, Some(<< >>), Some(<<"a">>)}
OptionalListArgs == {None, Some(<< >>), Some(<< <<"a">>, <<"b">> >>)}

TaskCalls ==
    {[function |-> "generate_learning_plan",
      args |-> [goal |-> g, time_available |-> 30, current_level |-> l,
                focus_areas |-> f, difficulty |-> <<"m">>]] :
        g \in StrArgs, l \in StrArgs, f \in OptionalListArgs}
    \cup
    {[function |-> "generate_todo_list",
      args |-> [time_available |-> 5, recent_progress |-> r, weak_areas |-> w,
                daily_goal |-> d]] :
        r \in OptionalStrArgs, w \in OptionalListArgs, d \in OptionalStrArgs}
    \cup
    {[function |-> "analyze_progress",
      args |-> [period |-> p, learning_records |-> <<"a">>, goals |-> g,
                progress_rate |-> r]] :
        p \in StrArgs, g \in StrArgs, r \in {0, 75}}
    \cup
    {[function |-> "give_advice",
      args |-> [current_issues |-> i, learning_status |-> <<"a">>, concerns |-> c,
                target_goal |-> t]] :
        i \in StrArgs, c \in OptionalStrArgs, t \in OptionalStrArgs}
    \cup
    {[function |-> "set_goals",
      args |-> [desired_outcome |-> o, timeline |-> <<"a">>, current_level |-> l,
                available_resources |-> <<"a">>, constraints |-> c]] :
        o \in StrArgs, l \in StrArgs, c \in OptionalStrArgs}

\* field maps for str.format: every set of names out of the fields of the
\* template and one name more, each with a value
FieldMaps(template) ==
    UNION {[names -> {<<"v">>}] : names \in SUBSET (Required(template) \cup {"extra"})}

FormatCalls ==
    {[function |-> "format", category |-> c, fields |-> m] :
        c \in Categories, m \in UNION {FieldMaps(prompt_mapping[k].user_template) :
                                          k \in Categories}}

CallFormat ==
    /\ fn_call.function = "format"
    /\ fn_outcome = Pending
    /\ fn_outcome' = format(get_prompt(fn_call.category, "user_template").value,
                            fn_call.fields)
    /\ UNCHANGED <<fn_call, notCallVars>>

CallTaskMethod ==
    /\ fn_call.function \in TaskMethods
    /\ fn_outcome = Pending
    /\ fn_outcome' = user_prompt_of(fn_call.function, fn_call.args)
    /\ UNCHANGED <<fn_call, notCallVars>>

\* C22: rendering a user template returns when the field map holds every
\* field of the template and raises KeyError naming a missing field of the
\* template otherwise; the user prompt of each of the five task methods is
\* rendered, whatever the arguments, absent optional ones included.
C22_TemplatesRendered ==
    /\ Called("format") =>
          LET lacking == Required(prompt_mapping[fn_call.category].user_template)
                           \ DOMAIN fn_call.fields
          IN IF lacking = {}
             THEN fn_outcome.kind = "return"
             ELSE /\ fn_outcome.kind = "raise"
                  /\ fn_outcome.error.cls = "KeyError"
                  /\ \E name \in lacking : fn_outcome.error = KeyError(name)
    /\ \A method \in TaskMethods : Called(method) => fn_outcome.kind = "return"

\* generate_todo_list called with every optional argument absent has
\* rendered its template with the three defaults
C22_Witness ==
    /\ Called("generate_todo_list")
    /\ fn_call.args.recent_progress = None
    /\ fn_call.args.weak_areas = None
    /\ fn_call.args.daily_goal = None
    /\ fn_outcome.kind = "return"
    /\ In(SNoData, fn_outcome.value)
    /\ In(SNothingSpecial, fn_outcome.value)
    /\ In(SEffectiveLearning, fn_outcome.value)

----------------------------------------------------------------------------
(* ScrapboxService: the two summaries of the fallback, called on their own *)

Keywords == {<<"a">>, <<"b">>, <<"S", "Q", "L">>, <<"U+554F", "U+984C">>}

WeakAreasCalls ==
    {[function |-> "_generate_weak_areas", weak_keywords |-> l] :
        l \in SeqsUpTo(Keywords, MaxKeywords)}

\* set(weak_keywords) enumerates the keywords in an order the interpreter
\* chooses
CallGenerateWeakAreas ==
    /\ fn_call.function = "_generate_weak_areas"
    /\ fn_outcome = Pending
    /\ \E areas \in _generate_weak_areas(Range(fn_call.weak_keywords)) :
          fn_outcome' = Return(areas)
    /\ UNCHANGED <<fn_call, notCallVars>>

Distinct(l) == \A a, b \in DOMAIN l : a # b => l[a] # l[b]

\* C23: for a non-empty list of keywords _generate_weak_areas returns the
\* ", "-join of distinct keywords of the list, three of them or all of them
\* when the list holds fewer than three different ones; for the empty list
\* it returns the 'no weak areas found' text.
C23_WeakAreas ==
    Called("_generate_weak_areas") =>
        LET given == Range(fn_call.weak_keywords)
            n == IF Cardinality(given) < 3 THEN Cardinality(given) ELSE 3
        IN IF fn_call.weak_keywords = << >>
           THEN fn_outcome = Return(SNoWeakAreas)
           ELSE /\ fn_outcome.kind = "return"
                /\ \E top \in [1..n -> given] :
                      /\ Distinct(top)
                      /\ fn_outcome.value = join(<<",", " ">>, top)

\* five keywords, four of them different, have given three
C23_Witness ==
    /\ Called("_generate_weak_areas")
    /\ Len(fn_call.weak_keywords) = 5
    /\ Cardinality(Range(fn_call.weak_keywords)) = 4
    /\ \E top \in [1..3 -> Range(fn_call.weak_keywords)] :
          Distinct(top) /\ fn_outcome = Return(join(<<",", " ">>, top))

\* 'made it, implemented it': two activity verbs on one line
BodyTwoActivities ==
    <<"U+4F5C", "U+6210", "U+3057", "U+305F", " ", "U+5B9F", "U+88C5", "U+3057", "U+305F">>

Content(title, content) == [title |-> title, content |-> content]

ProgressPages ==
    {Content(t, c) : t \in {<< >>, TitlePython},
                     c \in {<< >>, BodyActivity, BodyTwoActivities}}

RecentProgressCalls ==
    {[function |-> "_generate_recent_progress", page_contents |-> l] :
        l \in SeqsUpTo(ProgressPages, MaxProgressPages)}

CallGenerateRecentProgress ==
    /\ fn_call.function = "_generate_recent_progress"
    /\ fn_outcome = Pending
    /\ fn_outcome' = Return(_generate_recent_progress(fn_call.page_contents))
    /\ UNCHANGED <<fn_call, notCallVars>>

TitleFragment(page) == SOpenQuote \o page.title \o SAboutSuffix

\* the context of the first verb of activity_patterns that is in the body
ActivityFragments(page) ==
    LET found == {n \in DOMAIN activity_patterns : In(activity_patterns[n], page.content)}
    IN IF found = {} THEN << >>
       ELSE <<strip(activity_context(page.content, activity_patterns[Min(found)]))>>

\* the fragments of the first three pages, in the order they are emitted
FragmentsOfFirstThree(pages, with_empty_title) ==
    LET first == Take(pages, 3)
    IN Flatten([k \in DOMAIN first |->
           (IF with_empty_title \/ first[k].title # << >>
            THEN <<TitleFragment(first[k])>> ELSE << >>)
           \o ActivityFragments(first[k])])

\* C24 as stated: every one of the first three pages gives a title
\* fragment, and the result for a non-empty list is the " / "-join of the
\* first three fragments.
C24_TitleFragmentOfEveryPage ==
    Called("_generate_recent_progress") =>
        IF fn_call.page_contents = << >>
        THEN fn_outcome = Return(SNoRecentRecords)
        ELSE fn_outcome =
               Return(join(<<" ", "/", " ">>,
                           Take(FragmentsOfFirstThree(fn_call.page_contents, TRUE), 3)))

\* C24: _generate_recent_progress reads the first three pages only; each
\* gives a title fragment when its title is not empty and then the context
\* of the first activity verb found in its body, if any; the result is the
\* " / "-join of the first three fragments, the 'continuing' text when
\* there is no fragment, and the 'no recent records' text for no page.
C24_FirstThreePagesAndFragments ==
    Called("_generate_recent_progress") =>
        LET fragments == FragmentsOfFirstThree(fn_call.page_contents, FALSE)
        IN IF fn_call.page_contents = << >>
           THEN fn_outcome = Return(SNoRecentRecords)
           ELSE IF fragments = << >>
                THEN fn_outcome = Return(SContinuing)
                ELSE fn_outcome = Return(join(<<" ", "/", " ">>, Take(fragments, 3)))

\* four pages: the first three give two fragments, the fourth has a title
\* that the result leaves out
C24_Witness ==
    /\ Called("_generate_recent_progress")
    /\ Len(fn_call.page_contents) = 4
    /\ Len(FragmentsOfFirstThree(fn_call.page_contents, FALSE)) = 2
    /\ fn_call.page_contents[4].title # << >>
    /\ fn_outcome.kind = "return"

----------------------------------------------------------------------------
(* GeminiService: the constructor, and health_check *)

MsgKeyRequired == "GEMINI_API_KEY environment variable is required"

\* _configure_gemini refusing only a key that is None
_configure_gemini_is_none(api_key) ==
    IF api_key = None
    THEN Raise(GeminiConfigurationError(MsgKeyRequired))
    ELSE Return("configured")

\* lines 35-41: `if not self.settings.gemini_api_key`
_configure_gemini(api_key) ==
    IF Falsy(api_key)
    THEN Raise(GeminiConfigurationError(MsgKeyRequired))
    ELSE Return("configured")

\* GeminiService(settings), lines 25-33: the outcome and the number of
\* genai.GenerativeModel objects made by _create_model
GeminiService(api_key) ==
    LET configured == _configure_gemini(api_key)
    IN IF configured.kind = "raise"
       THEN [kind |-> "raise", error |-> configured.error, models |-> 0]
       ELSE [kind |-> "return", value |-> "GeminiService", models |-> 1]

ApiKeys == {None, Some(<< >>), Some(<<"k">>)}

ConstructorCalls ==
    {[function |-> "GeminiService", gemini_api_key |-> k] : k \in ApiKeys}

CallGeminiService ==
    /\ fn_call.function = "GeminiService"
    /\ fn_outcome = Pending
    /\ fn_outcome' = GeminiService(fn_call.gemini_api_key)
    /\ UNCHANGED <<fn_call, notCallVars>>

\* the classifier is given exceptions of any class
ParseApiErrorCalls ==
    {[function |-> "_parse_api_error", error |-> RawError(cls, text)] :
        cls \in {"Exception", "ValueError", "GeminiConfigurationError"},
        text \in ErrorTexts(MaxFlowFrags, FlowTails)}

CallParseApiError ==
    /\ fn_call.function = "_parse_api_error"
    /\ fn_outcome = Pending
    /\ fn_outcome' = Return(_parse_api_error(fn_call.error))
    /\ UNCHANGED <<fn_call, notCallVars>>

\* C25: constructing GeminiService with an API key that is empty or None
\* raises GeminiConfigurationError and makes no model; _parse_api_error
\* returns no GeminiConfigurationError, whatever exception it is given.
C25_NoKeyNoModel ==
    /\ (Called("GeminiService") /\ fn_call.gemini_api_key \in {None, Some(<< >>)}) =>
          /\ fn_outcome.kind = "raise"
          /\ fn_outcome.error.cls = "GeminiConfigurationError"
          /\ fn_outcome.models = 0
    /\ Called("_parse_api_error") =>
          /\ fn_outcome.kind = "return"
          /\ fn_outcome.value.cls # "GeminiConfigurationError"

\* the constructor has refused an empty key
C25_Witness ==
    /\ Called("GeminiService")
    /\ fn_call.gemini_api_key = Some(<< >>)
    /\ fn_outcome.kind = "raise"
    /\ fn_outcome.models = 0

\* str(e) of a GeminiServiceError: its message, which holds no digit and
\* no Latin letter but "API", as one character
message_of(error) == <<error.message>>

\* health_check reporting every failure as unhealthy
health_check_no_rate_limit(r) ==
    LET test_response == generate_text_outcome(r)
    IN IF test_response.kind = "return"
       THEN Return([status |-> "healthy", service |-> "gemini",
                    model |-> "gemini-2.0-flash-exp",
                    test_response_length |-> Len(test_response.value)])
       ELSE LET e == test_response.error
                custom_error == _parse_api_error(RawError(e.cls, message_of(e)))
            IN Return([status |-> "unhealthy", service |-> "gemini",
                       error |-> message_of(custom_error)])

\* lines 358-385; r is what model.generate_content answers to the test
\* prompt
health_check(r) ==
    LET test_response == generate_text_outcome(r)
    IN IF test_response.kind = "return"
       THEN Return([status |-> "healthy", service |-> "gemini",
                    model |-> "gemini-2.0-flash-exp",
                    test_response_length |-> Len(test_response.value)])
       ELSE LET e == test_response.error
            IN IF e.cls = "GeminiRateLimitError"
               THEN Return([status |-> "rate_limited", service |-> "gemini",
                            message |-> message_of(e),
                            retry_after_seconds |-> e.retry_after_seconds])
               ELSE LET custom_error == _parse_api_error(RawError(e.cls, message_of(e)))
                    IN Return([status |-> "unhealthy", service |-> "gemini",
                               error |-> message_of(custom_error)])

ModelReplies ==
    {[kind |-> "response", text |-> text] : text \in ReplyTexts}
    \cup {[kind |-> "exception", error |-> RawError("Exception", text)] :
            text \in ErrorTexts(MaxFlowFrags, FlowTails)}

HealthCheckCalls == {[function |-> "health_check", reply |-> r] : r \in ModelReplies}

CallHealthCheck ==
    /\ fn_call.function = "health_check"
    /\ fn_outcome = Pending
    /\ fn_outcome' = health_check(fn_call.reply)
    /\ UNCHANGED <<fn_call, notCallVars>>

\* C27: health_check returns, whatever the model answers: status "healthy"
\* with the length of the text exactly when generate_text returns, status
\* "rate_limited" with the retry_after_seconds of the classifier exactly
\* when generate_text raises GeminiRateLimitError, and status "unhealthy"
\* with an error field for every other failure.
C27_HealthCheckTotal ==
    Called("health_check") =>
        LET generated == generate_text_outcome(fn_call.reply)
            rate_limited == /\ generated.kind = "raise"
                            /\ generated.error.cls = "GeminiRateLimitError"
            h == fn_outcome.value
        IN /\ fn_outcome.kind = "return"
           /\ (h.status = "healthy") <=> (generated.kind = "return")
           /\ h.status = "healthy" => h.test_response_length = Len(generated.value)
           /\ (h.status = "rate_limited") <=> rate_limited
           /\ h.status = "rate_limited" =>
                 h.retry_after_seconds =
                     _parse_api_error(fn_call.reply.error).retry_after_seconds
           /\ (generated.kind = "raise" /\ ~rate_limited) =>
                 (h.status = "unhealthy" /\ "error" \in DOMAIN h)

\* the model has refused the test prompt for the rate limit, to retry
\* after 20 seconds
C27_Witness ==
    /\ Called("health_check")
    /\ fn_outcome.kind = "return"
    /\ fn_outcome.value.status = "rate_limited"
    /\ fn_outcome.value.retry_after_seconds = Some(20)

----------------------------------------------------------------------------
(* app/core/prompts.py: get_dynamic_prompt and get_dynamic_prompt_async *)

SNotStartedYet ==
    <<"U+307E", "U+3060", "U+624B", "U+3092", "U+3064", "U+3051", "U+3066", "U+3044",
      "U+306A", "U+3044">>

SNoWeakPoint ==
    <<"U+7279", "U+306B", "U+5F31", "U+70B9", "U+306F", "U+3042", "U+308A", "U+307E",
      "U+305B", "U+3093">>

\* dict.get(key, default)
get(dict, key, default) == IF key \in DOMAIN dict THEN dict[key] ELSE default

\* lines 240-267; fetched is the learning_records that fetch_learning_records_sync
\* returned
get_dynamic_prompt(category, fetched, prompt_type) ==
    LET recent_progress == get(fetched, "recent_progress", SNotStartedYet)
        weak_areas == get(fetched, "weak_areas", SNoWeakPoint)
    IN IF category \notin DOMAIN prompt_mapping
       THEN Raise(UnknownCategory(category))
       ELSE LET prompts == prompt_mapping[category]
            IN IF prompt_type \notin DOMAIN prompts
               THEN Raise(UnknownType(category, prompt_type))
               ELSE format(prompts[prompt_type],
                           [recent_progress |-> recent_progress,
                            weak_areas |-> weak_areas])

\* lines 289-316; fetched is the learning_records that fetch_learning_records returned
get_dynamic_prompt_async(category, fetched, prompt_type) ==
    LET recent_progress == get(fetched, "recent_progress", SNotStartedYet)
        weak_areas == get(fetched, "weak_areas", SNoWeakPoint)
    IN IF category \notin DOMAIN prompt_mapping
       THEN Raise(UnknownCategory(category))
       ELSE LET prompts == prompt_mapping[category]
            IN IF prompt_type \notin DOMAIN prompts
               THEN Raise(UnknownType(category, prompt_type))
               ELSE format(prompts[prompt_type],
                           [recent_progress |-> recent_progress,
                            weak_areas |-> weak_areas])

\* what the fetch of the learning records can return
FetchedRecords ==
    {Records(<<"p">>, <<"w">>), Records(SNotConfigured, SNotConfigured),
     Records(SNotStartedYet, SNoWeakPoint)}

DynamicPromptCalls ==
    {[function |-> f, category |-> c, learning_records |-> r, prompt_type |-> t] :
        f \in {"get_dynamic_prompt", "get_dynamic_prompt_async"},
        c \in CategoryArgs, r \in FetchedRecords, t \in PromptTypeArgs}

CallGetDynamicPrompt ==
    /\ fn_call.function = "get_dynamic_prompt"
    /\ fn_outcome = Pending
    /\ fn_outcome' = get_dynamic_prompt(fn_call.category, fn_call.learning_records,
                                        fn_call.prompt_type)
    /\ UNCHANGED <<fn_call, notCallVars>>

CallGetDynamicPromptAsync ==
    /\ fn_call.function = "get_dynamic_prompt_async"
    /\ fn_outcome = Pending
    /\ fn_outcome' = get_dynamic_prompt_async(fn_call.category, fn_call.learning_records,
                                              fn_call.prompt_type)
    /\ UNCHANGED <<fn_call, notCallVars>>

\* C26: for a category of the five and a prompt type of the two,
\* get_dynamic_prompt and get_dynamic_prompt_async return a prompt; the
\* only error they raise is ValueError, and only for an unknown category
\* or an unknown prompt type.
C26_DynamicPromptRendered ==
    (Called("get_dynamic_prompt") \/ Called("get_dynamic_prompt_async")) =>
        LET known == /\ fn_call.category \in Categories
                     /\ fn_call.prompt_type \in {"system", "user_template"}
        IN /\ known => fn_outcome.kind = "return"
           /\ fn_outcome.kind = "raise" =>
                 (fn_outcome.error.cls = "ValueError" /\ ~known)

----------------------------------------------------------------------------
(* ScrapboxService.get_recent_pages, called on its own *)

\* the number of pages test_get_recent_pages accepts
PageLimit == 20

RecentPagesCalls ==
    {[function |-> "get_recent_pages", answer |-> o, pages |-> ManyPages(pattern, n),
      days |-> d] :
        o \in ListOutcomes, pattern \in ManyPagesPatterns, n \in 0..MaxListedPages,
        d \in {7, 30, 90}}

\* lines 117-131: the list is fetched, sorted and cut to the window
CallGetRecentPages ==
    /\ fn_call.function = "get_recent_pages"
    /\ fn_outcome = Pending
    /\ fn_outcome' = get_recent_pages(get_pages_list(fn_call.answer, fn_call.pages),
                                      fn_call.days)
    /\ UNCHANGED <<fn_call, notCallVars>>

\* C28: for every project and every window length in days,
\* get_recent_pages returns at most 20 pages.
C28_AtMostTwentyPages ==
    (Called("get_recent_pages") /\ fn_outcome.kind = "return") =>
        Len(fn_outcome.value) <= PageLimit

----------------------------------------------------------------------------
(* The functions that keep no state, each applied once to one argument *)

Calls ==
    GetPromptCalls \cup FormatCalls \cup TaskCalls
    \cup WeakAreasCalls
    \cup RecentProgressCalls
    \cup ConstructorCalls
    \cup ParseApiErrorCalls
    \cup HealthCheckCalls
    \cup DynamicPromptCalls
    \cup RecentPagesCalls

InitCalls ==
    /\ GatewayIdle
    /\ RecordsIdle
    /\ RequestsIdle
    /\ ServicesIdle
    /\ fn_call \in Calls
    /\ fn_outcome = Pending

NextCalls ==
    \/ CallGetPrompt
    \/ CallFormat
    \/ CallTaskMethod
    \/ CallGenerateWeakAreas
    \/ CallGenerateRecentProgress
    \/ CallGeminiService
    \/ CallParseApiError
    \/ CallHealthCheck
    \/ CallGetDynamicPrompt
    \/ CallGetDynamicPromptAsync
    \/ CallGetRecentPages

SpecCalls == InitCalls /\ [][NextCalls]_vars

====
